---- MODULE Spec2Model ----
\* Turn resolution, inventory, equipment and trade of the narrative view
\* (src/components/NarrativeView.tsx), as a state machine over the React state
\* of the component.  One action per event handler; the asynchronous turn is
\* split at its single await point.
EXTENDS Integers, Sequences, FiniteSets, TLC

VARIABLES
    activeCharacters,   \* Character[]                       (line 99)
    history,            \* NarrativeTurn[]                   (line 100)
    isProcessing,       \* a turn is in flight               (line 104)
    gameResult,         \* "null" | "victory" | "defeat"     (line 105)
    enemies,            \* Enemy[]                           (line 106)
    activeAllies,       \* Ally[]                            (line 107)
    activeNeutrals,     \* NeutralNPC[]                      (line 108)
    nearbyItems,        \* the ground pool                   (line 109)
    mapData,            \* <<>> (null) or <<map>>            (line 112)
    karmaMap,           \* entity id -> streak               (line 113)
    timeData,           \* TimeData                          (line 114)
    tradeTarget,        \* <<>> (null) or <<npc snapshot>>   (line 117)
    givingItem,         \* <<>> (null) or <<[charId, itemIndex]>> (line 123)
    permadeathEnabled,  \* prop                              (line 94)
    karmicDiceEnabled,  \* prop                              (line 93)
    pendingTurn,        \* <<>> or <<closure of the submitTurn call in flight>>
    phase,              \* App.phase                        (App.tsx 43)
    mounted,            \* <<>> or <<props of the narrative view>> (App.tsx 45-50)
    creation,           \* state of CharacterCreation       (CharacterCreation.tsx 14-30)
    worldSetup,         \* loading and error of WorldSetup  (WorldSetup.tsx 31-32)
    loadingStory,       \* App.loadingStory                 (App.tsx 53)
    characters,         \* App.characters                   (App.tsx 45)
    retry,              \* a call of callWithRetry          (geminiService.ts 36-73)
    newLogs,            \* the entries the latest handler call gave addLog (line 137)
    steps               \* handler steps taken so far

vars == <<activeCharacters, history, isProcessing, gameResult, enemies,
          activeAllies, activeNeutrals, nearbyItems, mapData, karmaMap,
          timeData, tradeTarget, givingItem, permadeathEnabled,
          karmicDiceEnabled, pendingTurn, phase, mounted, creation,
          worldSetup, loadingStory, characters, retry, newLogs, steps>>

\* The state of App and of the setup screens, which the narrative view
\* receives or never sees, and never changes.
AppVars == <<permadeathEnabled, karmicDiceEnabled, phase, mounted, creation,
             worldSetup, loadingStory, characters, retry>>

----------------------------------------------------------------------------
\* Bound of the model.

\* Handler steps in one behaviour: an inventory, equipment or trade handler
\* is one step, a turn is two (its submission and its completion).  Opening
\* and closing a menu is not counted.  In the session a change of a manual
\* attribute and the start of the adventure are one step each.
MaxSteps == 4

----------------------------------------------------------------------------
\* Small helpers over sequences and integers.

Max(a, b) == IF a >= b THEN a ELSE b
Min(a, b) == IF a <= b THEN a ELSE b

\* arr.filter((_, idx) => idx !== itemIndex), 1-based
RemoveAt(s, i) == [k \in 1..(Len(s) - (IF i \in 1..Len(s) THEN 1 ELSE 0)) |->
                      IF k < i THEN s[k] ELSE s[k + 1]]

\* arr.some(i => i.name === name)
HasName(s, name) == \E k \in 1..Len(s) : s[k].name = name

\* arr.filter(i => i.name !== name)
RECURSIVE WithoutName(_, _)
WithoutName(s, name) ==
    IF s = <<>> THEN <<>>
    ELSE IF Head(s).name = name THEN WithoutName(Tail(s), name)
    ELSE <<Head(s)>> \o WithoutName(Tail(s), name)

\* arr.findIndex(c => c.name === name); 0 stands for -1
FindIndexByName(s, name) ==
    IF HasName(s, name)
    THEN CHOOSE k \in 1..Len(s) :
            s[k].name = name /\ \A j \in 1..(k - 1) : s[j].name # name
    ELSE 0

\* arr.find(c => c.id === id) as an index; 0 stands for undefined
FindIndexById(s, id) ==
    IF \E k \in 1..Len(s) : s[k].id = id
    THEN CHOOSE k \in 1..Len(s) :
            s[k].id = id /\ \A j \in 1..(k - 1) : s[j].id # id
    ELSE 0

----------------------------------------------------------------------------
\* Items.  slot "none", price 0 and capacityBonus 0 stand for an absent
\* (undefined) field: the code reads each of them through a falsy test.

Slots == {"back", "chest", "hands"}

MkItem(n, t, s, cb, p, e) ==
    [name |-> n, type |-> t, slot |-> s, capacityBonus |-> cb, price |-> p,
     effect |-> e]

EffCuraHp == <<"C","u","r","a"," ","3"," ","H","P">>
EffMana   == <<"+","2","m","p"," ","e"," ","5"," ","h","p">>
EffNone   == <<"b","r","i","l","h","a">>

Potion == MkItem("Potion", "consumable", "none", 0, 4, EffCuraHp)
Elixir == MkItem("Elixir", "consumable", "none", 0, 0, EffMana)
Pack   == MkItem("Pack", "equipment", "back", 1, 6, EffNone)
Sword  == MkItem("Sword", "equipment", "hands", 0, 0, EffNone)
RockNames == <<"Rock1", "Rock2", "Rock3", "Rock4", "Rock5", "Rock6", "Rock7">>
Ballast(k) == MkItem(RockNames[k], "misc", "none", 0, 0, EffNone)
Rocks(n) == [k \in 1..n |-> Ballast(k)]

----------------------------------------------------------------------------
\* handleUseItem's three regular expressions, on a text given as a sequence
\* of one-character strings:
\*   /(?:recupera|cura|ganha|\+)\s*(\d+)\s*(?:hp|vida)/i        and likewise
\*   (?:mana|mp), (?:stamina|estamina|st).

UpperCase == <<"A","B","C","D","E","F","G","H","I","J","K","L","M",
               "N","O","P","Q","R","S","T","U","V","W","X","Y","Z">>
LowerCase == <<"a","b","c","d","e","f","g","h","i","j","k","l","m",
               "n","o","p","q","r","s","t","u","v","w","x","y","z">>
DigitChars == <<"0","1","2","3","4","5","6","7","8","9">>

\* the i flag
ToLower(c) == IF \E k \in 1..26 : UpperCase[k] = c
              THEN LowerCase[CHOOSE k \in 1..26 : UpperCase[k] = c]
              ELSE c

IsDigit(c) == \E k \in 1..10 : DigitChars[k] = c
DigitVal(c) == (CHOOSE k \in 1..10 : DigitChars[k] = c) - 1

VerbWords == { <<"r","e","c","u","p","e","r","a">>, <<"c","u","r","a">>,
               <<"g","a","n","h","a">>, <<"+">> }
HpWords   == { <<"h","p">>, <<"v","i","d","a">> }
ManaWords == { <<"m","a","n","a">>, <<"m","p">> }
StWords   == { <<"s","t","a","m","i","n","a">>,
               <<"e","s","t","a","m","i","n","a">>, <<"s","t">> }

\* the word w occurs in e at position p (case-insensitively)
WordAt(e, p, w) ==
    /\ p + Len(w) - 1 <= Len(e)
    /\ \A j \in 1..Len(w) : ToLower(e[p + j - 1]) = w[j]

\* \s* : the first position >= p that holds no blank
RECURSIVE SkipSpaces(_, _)
SkipSpaces(e, p) ==
    IF p <= Len(e) /\ e[p] = " " THEN SkipSpaces(e, p + 1) ELSE p

\* \d+ : the first position >= p that holds no digit
RECURSIVE SkipDigits(_, _)
SkipDigits(e, p) ==
    IF p <= Len(e) /\ IsDigit(e[p]) THEN SkipDigits(e, p + 1) ELSE p

\* parseInt of the digits e[p..q-1]
RECURSIVE ParseDigits(_, _, _, _)
ParseDigits(e, p, q, acc) ==
    IF p >= q THEN acc
    ELSE ParseDigits(e, p + 1, q, (acc * 10) + DigitVal(e[p]))

\* the regular expression matches e starting at position p
EffectMatchAt(e, p, resWords) ==
    \E v \in VerbWords :
        /\ WordAt(e, p, v)
        /\ LET d == SkipSpaces(e, p + Len(v))
               q == SkipDigits(e, d)
           IN  /\ q > d
               /\ \E r \in resWords : WordAt(e, SkipSpaces(e, q), r)

\* item.effect.match(re): the captured number of the leftmost match, or -1
\* when there is no match (null)
EffectMatch(e, resWords) ==
    LET starts == { p \in 1..Len(e) : EffectMatchAt(e, p, resWords) }
    IN  IF starts = {} THEN -1
        ELSE LET p == CHOOSE x \in starts : \A y \in starts : x <= y
                 v == CHOOSE w \in VerbWords : WordAt(e, p, w)
                 d == SkipSpaces(e, p + Len(v))
             IN  ParseDigits(e, d, SkipDigits(e, d), 0)

----------------------------------------------------------------------------
\* Characters and the rosters.

\* CharacterCreation.calculateDerived
calculateDerived(attrs) ==
    [hp      |-> 10 + (attrs.CON * 5),
     stamina |-> 5 + ((attrs.FOR + attrs.AGI) * 2),
     mana    |-> 5 + (attrs.INT * 3)]

BaseAttributes ==
    [FOR |-> 1, DES |-> 1, CON |-> 1, INT |-> 1, SAB |-> 1, CAR |-> 1,
     AGI |-> 1, SOR |-> 1]

\* A character as addCharacter builds it and NarrativeView normalises it:
\* no equipment, no status, derived stats from the attributes.
MkCharacter(id, name, items, wealth) ==
    [id |-> id, name |-> name, items |-> items,
     equipment |-> [s \in {} |-> Potion],
     wealth |-> wealth, attributes |-> BaseAttributes,
     derived |-> calculateDerived(BaseAttributes), status |-> <<>>]

\* Roster entries; a record without a status field is one whose status is
\* undefined.
Goblin == [name |-> "Goblin", status |-> <<"Sangrando">>]
Wolf   == [name |-> "Wolf"]
Healer == [name |-> "Healer"]
Merchant ==
    [id |-> "n1", name |-> "Trader", isMerchant |-> TRUE,
     shopItems |-> <<Potion, Pack>>]
Farmer ==
    [id |-> "n2", name |-> "Farmer", isMerchant |-> FALSE,
     shopItems |-> <<>>]

Forest == [locationName |-> "Forest"]
Cave   == [locationName |-> "Cave"]

InitialTime == [dayCount |-> 1, phase |-> "DAY"]

\* e => ({...e, status: e.status || []})
DefaultStatus(roster) ==
    [k \in 1..Len(roster) |->
        [f \in DOMAIN roster[k] \cup {"status"} |->
            IF f = "status" /\ "status" \notin DOMAIN roster[k] THEN <<>>
            ELSE roster[k][f]]]

GmEntry(content) == [role |-> "gm", content |-> content]
PlayerEntry(content) == [role |-> "player", content |-> content]
\* An entry of mechanicLogs as addLog builds it, without its id and
\* timestamp: the content is the fixed text of the template, and the
\* character, the item and the number the template is filled with ("" and 0
\* where it has none).  mechanicLogs only grows; the model keeps the entries
\* of the latest inventory, trade or turn handler call, as a set: an entry
\* logged from inside a state updater is appended when React runs the updater.
Log(source, text, who, item, number, type) ==
    [source |-> source, text |-> text, who |-> who, item |-> item,
     number |-> number, type |-> type]

ErrorLine == "Erro na conexao divina..."

\* getInventoryLimit
getInventoryLimit(char) ==
    LET baseLimit == 7
        backpackBonus == IF "back" \in DOMAIN char.equipment
                         THEN char.equipment["back"].capacityBonus
                         ELSE 0
    IN  baseLimit + backpackBonus

\* The state of CharacterCreation when it is mounted.  An absent value (null)
\* is <<>>; generating is "no" or the creationMode that the running
\* handleGenerateDetails call has read.
CreationInitial ==
    [creationMode |-> "auto", pointsPool |-> 16,
     generatedAttributes |-> <<>>, generatedDerived |-> <<>>,
     generatedItems |-> <<>>, generatedWealth |-> 0,
     generating |-> "no", characters |-> <<>>]

\* No call of callWithRetry is running.  The record of a call: the API key
\* of the build, the arguments, the locals attempt and delay, the number of
\* times fn was invoked, the time the call sleeps, the error in hand and the
\* kinds of error fn has thrown so far.
RetryIdle ==
    [status |-> "idle", apiKey |-> TRUE, maxRetries |-> 0, attempt |-> 0,
     delay |-> 0, calls |-> 0, waitTime |-> 0, error |-> "none", thrown |-> {}]

\* The state of WorldSetup when it is mounted; the error is <<>> for null.
WorldSetupInitial == [loading |-> FALSE, error |-> <<>>]

\* The sessions the model starts from: party, permadeath, karmic dice,
\* initial enemies, initial map.
PartyA == << MkCharacter("c1", "Ana", Rocks(6) \o <<Pack>>, 10),
             MkCharacter("c2", "Bo", <<Potion>>, 4) >>
PartyB == << MkCharacter("c1", "Ana", <<Elixir, Sword>>, 0),
             MkCharacter("c2", "Bo", Rocks(7), 10) >>
PartyC == << MkCharacter("c1", "Ana", Rocks(6) \o <<Sword>>, 10),
             MkCharacter("c2", "Bo", <<Potion>>, 4) >>
Sessions ==
    { <<PartyA, FALSE, TRUE, <<>>, <<Forest>> >>,
      <<PartyB, FALSE, FALSE, <<Wolf>>, <<>> >>,
      <<PartyC, TRUE, FALSE, <<>>, <<Forest>> >> }

\* The state of the component when it is mounted.
Init ==
    /\ \E s \in Sessions :
          /\ activeCharacters = s[1]
          /\ permadeathEnabled = s[2]
          /\ karmicDiceEnabled = s[3]
          /\ enemies = DefaultStatus(s[4])
          /\ mapData = s[5]
          /\ characters = s[1]
          /\ mounted = << [characters |-> s[1], initialEnemies |-> s[4],
                           initialMapData |-> s[5]] >>
    /\ history = << GmEntry("intro") >>
    /\ isProcessing = FALSE
    /\ gameResult = "null"
    /\ activeAllies = <<>>
    /\ activeNeutrals = <<>>
    /\ nearbyItems = <<>>
    /\ karmaMap = [c \in {"c1", "c2"} |-> 0]
    /\ timeData = InitialTime
    /\ tradeTarget = <<>>
    /\ givingItem = <<>>
    /\ pendingTurn = <<>>
    /\ phase = "NARRATIVE"
    /\ creation = CreationInitial
    /\ worldSetup = WorldSetupInitial
    /\ loadingStory = FALSE
    /\ retry = RetryIdle
    /\ newLogs = {}
    /\ steps = 0

----------------------------------------------------------------------------
\* Dice.

diceOptions == <<"D4", "D6", "D8", "D10", "D12", "D20", "D100">>

\* parseInt(type.substring(1))
Sides(type) ==
    CASE type = "D4" -> 4 [] type = "D6" -> 6 [] type = "D8" -> 8
      [] type = "D10" -> 10 [] type = "D12" -> 12 [] type = "D20" -> 20
      [] type = "D100" -> 100

\* The dice the players select in the full machine: the default and the
\* smallest.
SelectableDice == {"D20", "D4"}

\* The values the second Math.random draw of rollDie can take; when the code
\* makes no second draw the first value is repeated.
SecondDraws(sides, streak, first) ==
    IF karmicDiceEnabled /\ (streak <= -2 \/ streak >= 2)
    THEN 1..sides ELSE {first}

\* The result with the two biases exchanged.
RollResultSwapped(streak, first, second) ==
    IF karmicDiceEnabled
    THEN IF streak <= -2 THEN Min(first, second)
         ELSE IF streak >= 2 THEN Max(first, second)
         ELSE first
    ELSE first

\* rollDie: the result, from the two draws
RollResult(streak, first, second) ==
    IF karmicDiceEnabled
    THEN IF streak <= -2 THEN Max(first, second)
         ELSE IF streak >= 2 THEN Min(first, second)
         ELSE first
    ELSE first

\* Math.ceil(sides / 2)
Threshold(sides) == (sides + 1) \div 2

\* The updater without its two caps.
NextStreakUncapped(currentStreak, isSuccess) ==
    IF isSuccess
    THEN (IF currentStreak >= 0 THEN currentStreak + 1 ELSE 1)
    ELSE (IF currentStreak <= 0 THEN currentStreak - 1 ELSE -1)

\* rollDie: the setKarmaMap updater
NextStreak(currentStreak, isSuccess) ==
    IF isSuccess
    THEN (IF currentStreak >= 0 THEN Min(currentStreak + 1, 5) ELSE 1)
    ELSE (IF currentStreak <= 0 THEN Max(currentStreak - 1, -5) ELSE -1)

\* rollDie with a streak update that runs only when karmic dice are enabled.
rollDieKarmicOnly(km, type, entityId, first, second) ==
    LET sides == Sides(type)
        result == RollResult(km[entityId], first, second)
        isSuccess == result > Threshold(sides)
    IN  IF karmicDiceEnabled
        THEN [km EXCEPT ![entityId] = NextStreak(km[entityId], isSuccess)]
        ELSE km

\* rollDie(type, entityId) with the given draws: the karma map after it
rollDie(km, type, entityId, first, second) ==
    LET sides == Sides(type)
        result == RollResult(km[entityId], first, second)
        isSuccess == result > Threshold(sides)
    IN  [km EXCEPT ![entityId] = NextStreak(km[entityId], isSuccess)]

----------------------------------------------------------------------------
\* Event handlers of the inventory, equipment and trade user interface.
\* A handler runs when its button is rendered and enabled.

\* setActiveCharacters(prev => prev.map(c => c.id === charId ? F(c) : c))
MapChar(charId, F(_)) ==
    [k \in 1..Len(activeCharacters) |->
        IF activeCharacters[k].id = charId THEN F(activeCharacters[k])
        ELSE activeCharacters[k]]

\* The positions of a bag the user acts on.
Picks(items) == { i \in 1..Len(items) : i = Len(items) }

UiVars == <<tradeTarget, givingItem>>
TurnVars == <<history, isProcessing, gameResult, pendingTurn,
              karmaMap, AppVars>>
WorldVars == <<enemies, activeAllies, mapData, timeData>>

\* Every handler below runs from the narrative screen, which the game-over
\* screen replaces once gameResult is set.
InvOp ==
    /\ gameResult = "null"
    /\ steps < MaxSteps
    /\ steps' = steps + 1

TakeInto(c, item) ==
    IF HasName(c.items, item.name) THEN c
    ELSE IF Len(c.items) >= getInventoryLimit(c) THEN c
    ELSE [c EXCEPT !.items = Append(@, item)]

\* The entries of handleTakeItem: the one of the updater's duplicate check
\* and the one at the end of the handler.
TakeLogs(c, item) ==
    (IF HasName(c.items, item.name)
     THEN { Log("Inventario", "ja esta no inventario.", "", item.name, 0,
                "system-info") }
     ELSE {})
    \cup { Log("Inventario", "Pegou do chao.", "", item.name, 0, "gain") }

\* handleTakeItem, from the "Pegar" button of a ground item
handleTakeItem(charId, itemIndex) ==
    LET k == FindIndexById(activeCharacters, charId)
    IN  /\ InvOp
        /\ itemIndex \in 1..Len(nearbyItems)
        /\ ~ (Len(enemies) > 0
              \/ Len(activeCharacters[k].items)
                    >= getInventoryLimit(activeCharacters[k]))
        /\ IF Len(enemies) > 0
           THEN /\ UNCHANGED <<activeCharacters, nearbyItems>>
                /\ newLogs' = {}
           ELSE LET item == nearbyItems[itemIndex]
                    F(c) == TakeInto(c, item)
                IN  /\ activeCharacters' = MapChar(charId, F)
                    /\ nearbyItems' = RemoveAt(nearbyItems, itemIndex)
                    /\ newLogs' = TakeLogs(activeCharacters[k], item)
        /\ UNCHANGED <<UiVars, TurnVars, WorldVars, activeNeutrals>>

\* handleDropItem, from the "Jogar no Chao" button of a bag item
handleDropItem(charId, itemIndex) ==
    LET k == FindIndexById(activeCharacters, charId)
    IN  /\ InvOp
        /\ itemIndex \in Picks(activeCharacters[k].items)
        /\ ~ (Len(enemies) > 0)
        /\ IF Len(enemies) > 0
           THEN /\ UNCHANGED <<activeCharacters, nearbyItems>>
                /\ newLogs' = {}
           ELSE LET item == activeCharacters[k].items[itemIndex]
                    F(c) == [c EXCEPT !.items = RemoveAt(@, itemIndex)]
                IN  /\ activeCharacters' = MapChar(charId, F)
                    /\ nearbyItems' = Append(nearbyItems, item)
                    /\ newLogs' = { Log("Inventario", "Jogou no chao.", "",
                                        item.name, 0, "system-info") }
        /\ UNCHANGED <<UiVars, TurnVars, WorldVars, activeNeutrals>>

\* The gift button of a bag item: opens or closes the "Dar para" menu.
ToggleGiveMenu(charId, itemIndex) ==
    LET k == FindIndexById(activeCharacters, charId)
        sel == [charId |-> charId, itemIndex |-> itemIndex]
    IN  /\ gameResult = "null"
        /\ itemIndex \in Picks(activeCharacters[k].items)
        /\ ~ (Len(enemies) > 0)
        /\ givingItem' = IF givingItem = <<sel>> THEN <<>> ELSE <<sel>>
        /\ UNCHANGED <<activeCharacters, nearbyItems, activeNeutrals,
                       tradeTarget, TurnVars, WorldVars, newLogs, steps>>

\* The roster after a gift that skips the duplicate check.
GiveBetweenNoDuplicateCheck(chars, sourceCharId, targetCharId, itemIndex) ==
    LET sourceChar == chars[FindIndexById(chars, sourceCharId)]
        targetChar == chars[FindIndexById(chars, targetCharId)]
        itemToGive == sourceChar.items[itemIndex]
    IN  IF Len(targetChar.items) >= getInventoryLimit(targetChar)
        THEN chars
        ELSE [j \in 1..Len(chars) |->
                IF chars[j].id = sourceCharId
                THEN [chars[j] EXCEPT !.items = RemoveAt(@, itemIndex)]
                ELSE IF chars[j].id = targetCharId
                THEN [chars[j] EXCEPT !.items = Append(@, itemToGive)]
                ELSE chars[j]]

\* The roster handleGiveItem leaves: its two checks on the recipient and its
\* setActiveCharacters updater.
GiveBetween(chars, sourceCharId, targetCharId, itemIndex) ==
    LET sourceChar == chars[FindIndexById(chars, sourceCharId)]
        targetChar == chars[FindIndexById(chars, targetCharId)]
        itemToGive == sourceChar.items[itemIndex]
    IN  IF Len(targetChar.items) >= getInventoryLimit(targetChar)
        THEN chars
        ELSE IF HasName(targetChar.items, itemToGive.name)
        THEN chars
        ELSE [j \in 1..Len(chars) |->
                IF chars[j].id = sourceCharId
                THEN [chars[j] EXCEPT !.items = RemoveAt(@, itemIndex)]
                ELSE IF chars[j].id = targetCharId
                THEN [chars[j] EXCEPT !.items = Append(@, itemToGive)]
                ELSE chars[j]]

\* The entry of handleGiveItem.
GiveLogs(sourceChar, targetChar, itemIndex) ==
    LET itemToGive == sourceChar.items[itemIndex]
    IN  IF Len(targetChar.items) >= getInventoryLimit(targetChar)
        THEN { Log("Troca", "nao tem espaco na mochila.", targetChar.name,
                   "", 0, "system-info") }
        ELSE IF HasName(targetChar.items, itemToGive.name)
        THEN { Log("Troca", "ja possui esse item.", targetChar.name, "", 0,
                   "system-info") }
        ELSE { Log("Troca", "deu para", targetChar.name, itemToGive.name, 0,
                   "system-info") }

\* handleGiveItem, from an entry of the open "Dar para" menu
handleGiveItem(sourceCharId, targetCharId, itemIndex) ==
    LET si == FindIndexById(activeCharacters, sourceCharId)
        ti == FindIndexById(activeCharacters, targetCharId)
    IN  /\ InvOp
        /\ givingItem = << [charId |-> sourceCharId, itemIndex |-> itemIndex] >>
        /\ si # 0 /\ ti # 0 /\ sourceCharId # targetCharId
        /\ itemIndex \in 1..Len(activeCharacters[si].items)
        /\ activeCharacters' = GiveBetween(activeCharacters, sourceCharId,
                                            targetCharId, itemIndex)
        /\ newLogs' = GiveLogs(activeCharacters[si], activeCharacters[ti],
                               itemIndex)
        /\ givingItem' = <<>>
        /\ UNCHANGED <<nearbyItems, activeNeutrals, tradeTarget, TurnVars,
                       WorldVars>>

\* The value a match adds: parseInt of the capture, nothing without a match.
Gain(effect, resWords) ==
    LET m == EffectMatch(effect, resWords) IN IF m = -1 THEN 0 ELSE m

UseOn(c, item, itemIndex) ==
    [c EXCEPT
        !.derived = [hp      |-> @.hp + Gain(item.effect, HpWords),
                     mana    |-> @.mana + Gain(item.effect, ManaWords),
                     stamina |-> @.stamina + Gain(item.effect, StWords)],
        !.items = RemoveAt(@, itemIndex)]

\* The entries of handleUseItem's updater: one for each resource the effect
\* text matches, or the one of an effect that matches nothing.
UseLogs(c, item) ==
    LET hp == EffectMatch(item.effect, HpWords)
        mana == EffectMatch(item.effect, ManaWords)
        st == EffectMatch(item.effect, StWords)
    IN  (IF hp # -1
         THEN { Log(c.name, "Recuperou HP com", "", item.name, hp, "gain") }
         ELSE {})
        \cup
        (IF mana # -1
         THEN { Log(c.name, "Recuperou Mana com", "", item.name, mana,
                    "gain") }
         ELSE {})
        \cup
        (IF st # -1
         THEN { Log(c.name, "Recuperou Estamina com", "", item.name, st,
                    "gain") }
         ELSE {})
        \cup
        (IF hp = -1 /\ mana = -1 /\ st = -1
         THEN { Log(c.name, "Usou. (Efeito narrativo aplicado)", "",
                    item.name, 0, "system-info") }
         ELSE {})

\* handleUseItem under the combat lock of takeItem and dropItem.
handleUseItemCombatLocked(charId, itemIndex) ==
    LET k == FindIndexById(activeCharacters, charId)
    IN  /\ InvOp
        /\ itemIndex \in Picks(activeCharacters[k].items)
        /\ activeCharacters[k].items[itemIndex].type = "consumable"
        /\ LET item == activeCharacters[k].items[itemIndex]
               F(c) == UseOn(c, item, itemIndex)
           IN  IF Len(enemies) > 0
               THEN /\ UNCHANGED activeCharacters
                    /\ newLogs' = {}
               ELSE /\ activeCharacters' = MapChar(charId, F)
                    /\ newLogs' = UseLogs(activeCharacters[k], item)
        /\ UNCHANGED <<nearbyItems, activeNeutrals, UiVars, TurnVars,
                       WorldVars>>

\* handleUseItem, from the "Usar Item" button of a consumable
handleUseItem(charId, itemIndex) ==
    LET k == FindIndexById(activeCharacters, charId)
    IN  /\ InvOp
        /\ itemIndex \in Picks(activeCharacters[k].items)
        /\ activeCharacters[k].items[itemIndex].type = "consumable"
        /\ LET item == activeCharacters[k].items[itemIndex]
               F(c) == UseOn(c, item, itemIndex)
           IN  /\ activeCharacters' = MapChar(charId, F)
               /\ newLogs' = UseLogs(activeCharacters[k], item)
        /\ UNCHANGED <<nearbyItems, activeNeutrals, UiVars, TurnVars,
                       WorldVars>>

\* The equip that leaves the item in the bag as well.
EquipOnKeepingItem(c, item, itemIndex) ==
    IF item.slot \in DOMAIN c.equipment THEN c
    ELSE [c EXCEPT
            !.equipment = [s \in DOMAIN c.equipment \cup {item.slot} |->
                              IF s = item.slot THEN item ELSE c.equipment[s]]]

EquipOn(c, item, itemIndex) ==
    IF item.slot \in DOMAIN c.equipment THEN c
    ELSE [c EXCEPT
            !.equipment = [s \in DOMAIN c.equipment \cup {item.slot} |->
                              IF s = item.slot THEN item ELSE c.equipment[s]],
            !.items = RemoveAt(@, itemIndex)]

\* The entries of handleEquipItem: the one of the updater's slot check and
\* the one at the end of the handler.
EquipLogs(c, item) ==
    (IF item.slot \in DOMAIN c.equipment
     THEN { Log("Equipamento", "Slot ocupado. Desequipe primeiro.", "",
                item.slot, 0, "system-info") }
     ELSE {})
    \cup { Log("Equipamento", "Equipou", "", item.name, 0, "gain") }

\* handleEquipItem, from the "Equipar" button of a bag item with a free slot
handleEquipItem(charId, itemIndex) ==
    LET k == FindIndexById(activeCharacters, charId)
    IN  /\ InvOp
        /\ itemIndex \in Picks(activeCharacters[k].items)
        /\ LET item == activeCharacters[k].items[itemIndex]
               F(c) == EquipOn(c, item, itemIndex)
           IN  /\ item.slot # "none"
               /\ item.slot \notin DOMAIN activeCharacters[k].equipment
               /\ activeCharacters' = MapChar(charId, F)
               /\ newLogs' = EquipLogs(activeCharacters[k], item)
        /\ UNCHANGED <<nearbyItems, activeNeutrals, UiVars, TurnVars,
                       WorldVars>>

\* The unequip without the capacity check.
UnequipOnNoCapacityCheck(c, slot) ==
    IF slot \notin DOMAIN c.equipment THEN c
    ELSE [c EXCEPT
            !.equipment = [s \in DOMAIN c.equipment \ {slot} |->
                              c.equipment[s]],
            !.items = Append(@, c.equipment[slot])]

UnequipOn(c, slot) ==
    IF slot \notin DOMAIN c.equipment THEN c
    ELSE IF Len(c.items) >= getInventoryLimit(c) THEN c
    ELSE [c EXCEPT
            !.equipment = [s \in DOMAIN c.equipment \ {slot} |->
                              c.equipment[s]],
            !.items = Append(@, c.equipment[slot])]

\* The entries of handleUnequipItem: the one of the updater's capacity check
\* and the one at the end of the handler.
UnequipLogs(c, slot) ==
    (IF slot \in DOMAIN c.equipment /\ Len(c.items) >= getInventoryLimit(c)
     THEN { Log("Equipamento", "Sem espaco na mochila para desequipar.", "",
                "", 0, "system-info") }
     ELSE {})
    \cup { Log("Equipamento", "Desequipou item das", "", slot, 0,
               "system-info") }

\* handleUnequipItem, from the "Desequipar" button of an occupied slot
handleUnequipItem(charId, slot) ==
    LET k == FindIndexById(activeCharacters, charId)
        F(c) == UnequipOn(c, slot)
    IN  /\ InvOp
        /\ slot \in DOMAIN activeCharacters[k].equipment
        /\ activeCharacters' = MapChar(charId, F)
        /\ newLogs' = UnequipLogs(activeCharacters[k], slot)
        /\ UNCHANGED <<nearbyItems, activeNeutrals, UiVars, TurnVars,
                       WorldVars>>

\* The "Comerciar" button of a merchant: setTradeTarget(npc)
OpenTrade(n) ==
    /\ gameResult = "null"
    /\ n \in 1..Len(activeNeutrals)
    /\ activeNeutrals[n].isMerchant
    /\ ~ (Len(enemies) > 0)
    /\ tradeTarget' = << activeNeutrals[n] >>
    /\ UNCHANGED <<activeCharacters, nearbyItems, activeNeutrals, givingItem,
                   TurnVars, WorldVars, newLogs, steps>>

\* The close button of the trade modal: setTradeTarget(null)
CloseTrade ==
    /\ gameResult = "null"
    /\ tradeTarget # <<>>
    /\ tradeTarget' = <<>>
    /\ UNCHANGED <<activeCharacters, nearbyItems, activeNeutrals, givingItem,
                   TurnVars, WorldVars, newLogs, steps>>

\* The purchase without the capacity check.
BuyIntoNoCapacityCheck(c, item) ==
    IF c.wealth < item.price THEN c
    ELSE [c EXCEPT !.wealth = @ - item.price, !.items = Append(@, item)]

BuyInto(c, item) ==
    IF c.wealth < item.price THEN c
    ELSE IF Len(c.items) >= getInventoryLimit(c) THEN c
    ELSE [c EXCEPT !.wealth = @ - item.price, !.items = Append(@, item)]

\* The entry of handleBuyItem's updater.
BuyLogs(c, item) ==
    IF c.wealth < item.price
    THEN { Log("Comercio", "Dinheiro insuficiente para comprar", "",
               item.name, 0, "system-info") }
    ELSE IF Len(c.items) >= getInventoryLimit(c)
    THEN { Log("Comercio", "Sem espaco na mochila.", "", "", 0, "system-info") }
    ELSE { Log("Comercio", "comprou por", c.name, item.name, item.price,
               "gain") }

\* handleBuyItem, from a "Comprar" button of the trade modal
handleBuyItem(charId, shopIndex) ==
    LET k == FindIndexById(activeCharacters, charId)
    IN  /\ InvOp
        /\ tradeTarget # <<>>
        /\ shopIndex \in 1..Len(tradeTarget[1].shopItems)
        /\ LET item == tradeTarget[1].shopItems[shopIndex]
               F(c) == BuyInto(c, item)
           IN  /\ ~ (activeCharacters[k].wealth
                        < (IF item.price = 0 THEN 99999 ELSE item.price))
               /\ IF item.price = 0
                  THEN /\ UNCHANGED activeCharacters
                       /\ newLogs' = {}
                  ELSE /\ activeCharacters' = MapChar(charId, F)
                       /\ newLogs' = BuyLogs(activeCharacters[k], item)
        /\ UNCHANGED <<nearbyItems, activeNeutrals, UiVars, TurnVars,
                       WorldVars>>

\* The sell price without the default of 10 for an item that has no price.
sellPriceNoDefault(item) == item.price \div 2

\* Math.floor((item.price || 10) / 2)
sellPrice(item) == (IF item.price = 0 THEN 10 ELSE item.price) \div 2

\* handleSellItem, from a "Vender" button of the trade modal
handleSellItem(charId, itemIndex) ==
    LET k == FindIndexById(activeCharacters, charId)
    IN  /\ InvOp
        /\ tradeTarget # <<>>
        /\ itemIndex \in Picks(activeCharacters[k].items)
        /\ LET item == activeCharacters[k].items[itemIndex]
               F(c) == [c EXCEPT !.wealth = @ + sellPrice(item),
                                 !.items = RemoveAt(@, itemIndex)]
           IN  /\ activeCharacters' = MapChar(charId, F)
               /\ activeNeutrals' =
                    [j \in 1..Len(activeNeutrals) |->
                        IF activeNeutrals[j].id = tradeTarget[1].id
                        THEN [activeNeutrals[j] EXCEPT
                                !.shopItems = Append(@, item)]
                        ELSE activeNeutrals[j]]
               /\ tradeTarget' =
                    << [tradeTarget[1] EXCEPT !.shopItems = Append(@, item)] >>
               /\ newLogs' = { Log("Comercio", "vendeu por",
                                   activeCharacters[k].name, item.name,
                                   sellPrice(item), "gain") }
        /\ UNCHANGED <<nearbyItems, givingItem, TurnVars, WorldVars>>

----------------------------------------------------------------------------
\* The turn.

\* A character counts as down only below hp 0.
IsDownBelowZero(c) == permadeathEnabled /\ c.derived.hp < 0

\* A character that submitTurn rolls no die for.
IsDown(c) == permadeathEnabled /\ c.derived.hp <= 0

\* The draws of one character's roll in a turn; a character that is down
\* makes none.
NoDraw == [type |-> "none", first |-> 0, second |-> 0]
DrawsOf(c, dice) ==
    IF IsDown(c) THEN {NoDraw}
    ELSE UNION { UNION { { [type |-> t, first |-> a, second |-> b] :
                            b \in SecondDraws(Sides(t), karmaMap[c.id], a) } :
                         a \in 1..Sides(t) } : t \in dice }

\* The draws of the rolls of one turn.  The characters that roll in the same
\* turn have the same die selected and draw the same first number.
TurnDraws(chars) ==
    { draws \in DrawsOf(chars[1], SelectableDice)
                  \X DrawsOf(chars[2], SelectableDice) :
        \/ draws[1] = NoDraw
        \/ draws[2] = NoDraw
        \/ draws[1].type = draws[2].type /\ draws[1].first = draws[2].first }

\* activeCharacters.forEach(c => rollDie(...)): the karma map after the rolls
RECURSIVE RollAll(_, _, _)
RollAll(km, k, draws) ==
    IF k > Len(activeCharacters) THEN km
    ELSE LET c == activeCharacters[k]
         IN  RollAll(IF IsDown(c) THEN km
                     ELSE rollDie(km, draws[k].type, c.id, draws[k].first,
                                  draws[k].second),
                     k + 1, draws)

\* The entries of the rolls of submitTurn, one for each character that rolls.
RollLogs(chars) ==
    { Log(chars[k].name, "Tentativa de Acao", "", "", 0, "player-roll") :
        k \in { j \in 1..Len(chars) : ~ IsDown(chars[j]) } }

\* What the players typed when the turn is submitted (actions, line 101), by
\* position in the roster: "" is an empty textarea.
TypedActions == { [k \in 1..2 |-> IF k = 1 THEN "attack" ELSE ""] }

\* contentLog (lines 428-434): one line for each character of the roster
contentLog(chars, typed) ==
    [k \in 1..Len(chars) |->
        [name |-> chars[k].name,
         action |-> IF IsDown(chars[k]) THEN "(CAIDO/INCONSCIENTE)"
                    ELSE IF typed[k] = "" THEN "Aguarda..." ELSE typed[k]]]

\* actionsToSend (lines 439-442)
actionsToSend(chars, typed) ==
    [k \in 1..Len(chars) |->
        [name |-> chars[k].name,
         action |-> IF IsDown(chars[k]) THEN "INCONSCIENTE/CAIDO"
                    ELSE typed[k]]]

\* submitTurn from a button that stays enabled while a turn is in flight.
SubmitTurnUnguarded ==
    /\ gameResult = "null"
    /\ steps + 2 <= MaxSteps
    /\ steps' = steps + 2
    /\ karmaMap' \in
          { RollAll(karmaMap, 1, draws) : draws \in TurnDraws(activeCharacters) }
    /\ \E typed \in TypedActions :
          /\ history' = Append(history,
                               PlayerEntry(contentLog(activeCharacters, typed)))
          /\ pendingTurn' =
               << [activeCharacters |-> activeCharacters, mapData |-> mapData,
                   actions |-> actionsToSend(activeCharacters, typed),
                   rolled |-> { activeCharacters[k].id :
                                  k \in { j \in 1..Len(activeCharacters) :
                                            ~ IsDown(activeCharacters[j]) } }] >>
    /\ newLogs' = RollLogs(activeCharacters)
    /\ isProcessing' = TRUE
    /\ UNCHANGED <<activeCharacters, nearbyItems, activeNeutrals, UiVars,
                   WorldVars, gameResult, AppVars>>

\* submitTurn up to its await: rolls, the player entry, the call to the
\* Oracle.  The call keeps the roster and the map of this render.
submitTurnToAwait ==
    /\ gameResult = "null"
    /\ ~ isProcessing
    /\ steps + 2 <= MaxSteps
    /\ steps' = steps + 2
    /\ karmaMap' \in
          { RollAll(karmaMap, 1, draws) : draws \in TurnDraws(activeCharacters) }
    /\ \E typed \in TypedActions :
          /\ history' = Append(history,
                               PlayerEntry(contentLog(activeCharacters, typed)))
          /\ pendingTurn' =
               << [activeCharacters |-> activeCharacters, mapData |-> mapData,
                   actions |-> actionsToSend(activeCharacters, typed),
                   rolled |-> { activeCharacters[k].id :
                                  k \in { j \in 1..Len(activeCharacters) :
                                            ~ IsDown(activeCharacters[j]) } }] >>
    /\ newLogs' = RollLogs(activeCharacters)
    /\ isProcessing' = TRUE
    /\ UNCHANGED <<activeCharacters, nearbyItems, activeNeutrals, UiVars,
                   WorldVars, gameResult, permadeathEnabled,
                   karmicDiceEnabled, phase, mounted, creation, worldSetup,
                   loadingStory, characters>>

\* submitTurn, with the Oracle's call left to TurnSuccess and TurnFail
SubmitTurn ==
    /\ submitTurnToAwait
    /\ UNCHANGED retry

\* processTurn's actionContext (geminiService.ts 459-477): what the prompt
\* says of each entry of playerActions.  A description is the line "MORTO",
\* the bare line "Acao", or the full block "PC" with the action and the die;
\* rolls is the set of the ids that have a roll.
actionContext(playerActions, chars, rolls) ==
    [k \in 1..Len(playerActions) |->
        LET p == playerActions[k]
            found == HasName(chars, p.name)
            hasRoll == found /\ chars[FindIndexByName(chars, p.name)].id
                                   \in rolls
        IN  IF p.action = "" \/ p.action = "MORTO"
            THEN [kind |-> "MORTO", name |-> p.name, action |-> "",
                  die |-> FALSE]
            ELSE IF ~ found \/ ~ hasRoll
            THEN [kind |-> "Acao", name |-> "", action |-> p.action,
                  die |-> FALSE]
            ELSE [kind |-> "PC", name |-> p.name, action |-> p.action,
                  die |-> TRUE]]

\* Turn responses of the Oracle.  An optional field is <<>> when absent and
\* <<value>> when present; gameResult "absent" is the missing field.
BaseResponse ==
    [storyText |-> "story", isGameOver |-> FALSE, gameResult |-> "absent",
     resourceChanges |-> <<>>, inventoryUpdates |-> <<>>,
     nearbyItems |-> <<>>, characterStatusUpdates |-> <<>>,
     activeEnemies |-> <<>>, activeAllies |-> <<>>, activeNeutrals |-> <<>>,
     mapData |-> <<>>, timeData |-> <<>>]

Change(n, res, v) == [characterName |-> n, resource |-> res, value |-> v]
Update(n, a, it, cost) ==
    [characterName |-> n, action |-> a, item |-> it, cost |-> cost]

ResourceChangeLists ==
    { << Change("Ana", "hp", -20) >>,
      << Change("Ana", "hp", -14) >>,
      << Change("Ana", "hp", -1) >>,
      << Change("Bo", "hp", -15) >>,
      << Change("Ana", "hp", -15), Change("Bo", "hp", -15) >>,
      << Change("Zed", "hp", -3), Change("Bo", "mana", -9),
         Change("Bo", "hp", 2) >> }

InventoryUpdateLists ==
    { << Update("Zed", "ADD", Elixir, 0), Update("Ana", "ADD", Sword, 0) >>,
      << Update("Ana", "REMOVE", Pack, 0), Update("Bo", "REMOVE", Potion, 7) >> }

Responses ==
    { [BaseResponse EXCEPT !.resourceChanges = rc] : rc \in ResourceChangeLists }
    \cup
    { [BaseResponse EXCEPT !.inventoryUpdates = iu] :
        iu \in InventoryUpdateLists }
    \cup
    { [BaseResponse EXCEPT !.mapData = <<x[1]>>, !.nearbyItems = x[2],
                           !.inventoryUpdates = x[3]] :
        x \in { <<Cave, <<>>, <<>> >>,
                <<Cave, <<Elixir>>, << Update("Ana", "ADD", Sword, 0) >> >>,
                <<Forest, <<Potion>>, << Update("Ana", "ADD", Sword, 0) >> >>,
                <<Forest, <<Elixir, Elixir>>, <<>> >> } }
    \cup
    { [BaseResponse EXCEPT !.isGameOver = x[1], !.gameResult = x[2]] :
        x \in { <<TRUE, "VICTORY">>, <<TRUE, "DEFEAT">>, <<TRUE, "ONGOING">>,
                <<TRUE, "absent">>, <<FALSE, "VICTORY">>,
                <<FALSE, "absent">> } }
    \cup
    { [BaseResponse EXCEPT !.activeEnemies = x[1], !.activeNeutrals = x[2]] :
        x \in { << << <<Goblin, Wolf>> >>, <<>> >>,
                << << <<>> >>, << <<Merchant, Farmer>> >> >>,
                << <<>>, << <<Merchant>> >> >>,
                << <<>>, << <<Farmer>> >> >> } }
    \cup
    { [BaseResponse EXCEPT
         !.characterStatusUpdates =
            << [characterName |-> "Bo", status |-> <<"Envenenado">>] >>,
         !.activeAllies = << <<Healer>> >>,
         !.timeData = << [dayCount |-> 1, phase |-> "NIGHT"] >>] }
    \cup
    { [BaseResponse EXCEPT
         !.resourceChanges =
            << Change("Zed", "hp", -3), Change("Ana", "stamina", -2) >>,
         !.inventoryUpdates = << Update("Zed", "REMOVE", Sword, 5) >>,
         !.characterStatusUpdates =
            << [characterName |-> "Zed", status |-> <<"Envenenado">>],
               [characterName |-> "Ana", status |-> <<"Cansado">>] >>,
         !.activeEnemies = << <<Wolf>> >>,
         !.mapData = <<Cave>>,
         !.timeData = << [dayCount |-> 2, phase |-> "DAY"] >>] }

\* One resource change applied without the floor at 0.
ApplyOneChangeUnclamped(chars, change) ==
    LET charIndex == FindIndexByName(chars, change.characterName)
    IN  IF charIndex = 0 THEN chars
        ELSE [chars EXCEPT ![charIndex].derived[change.resource] =
                              @ + change.value]

\* One resource change matched loosely: a name that is not in the roster
\* falls on the first character.
ApplyOneChangeLoose(chars, change) ==
    LET found == FindIndexByName(chars, change.characterName)
        charIndex == IF found = 0 THEN 1 ELSE found
        sum == chars[charIndex].derived[change.resource] + change.value
        newValue == IF ~ permadeathEnabled THEN Max(0, sum) ELSE sum
    IN  [chars EXCEPT ![charIndex].derived[change.resource] = newValue]

\* response.resourceChanges.forEach(...)
RECURSIVE ApplyResourceChanges(_, _)
ApplyOneChange(chars, change) ==
    LET charIndex == FindIndexByName(chars, change.characterName)
    IN  IF charIndex = 0 THEN chars
        ELSE LET sum == chars[charIndex].derived[change.resource] + change.value
                 newValue == IF ~ permadeathEnabled THEN Max(0, sum) ELSE sum
             IN  [chars EXCEPT ![charIndex].derived[change.resource] = newValue]
ApplyResourceChanges(chars, changes) ==
    IF changes = <<>> THEN chars
    ELSE ApplyResourceChanges(ApplyOneChange(chars, Head(changes)),
                              Tail(changes))

\* The REMOVE branch with a cost deducted without the floor of 0.
ApplyOneRemoveUnclamped(chars, update) ==
    LET charIndex == FindIndexByName(chars, update.characterName)
    IN  IF charIndex = 0 \/ update.action # "REMOVE" THEN chars
        ELSE [chars EXCEPT
                ![charIndex].items = WithoutName(@, update.item.name),
                ![charIndex].wealth =
                    IF update.cost # 0 THEN @ - update.cost ELSE @]

\* response.inventoryUpdates.forEach(...), the REMOVE branch
RECURSIVE ApplyInventoryRemoves(_, _)
ApplyOneRemove(chars, update) ==
    LET charIndex == FindIndexByName(chars, update.characterName)
    IN  IF charIndex = 0 \/ update.action # "REMOVE" THEN chars
        ELSE [chars EXCEPT
                ![charIndex].items = WithoutName(@, update.item.name),
                ![charIndex].wealth =
                    IF update.cost # 0 THEN Max(0, @ - update.cost) ELSE @]
ApplyInventoryRemoves(chars, updates) ==
    IF updates = <<>> THEN chars
    ELSE ApplyInventoryRemoves(ApplyOneRemove(chars, Head(updates)),
                               Tail(updates))

\* response.inventoryUpdates.forEach(...), the ADD branch: the queued
\* setNearbyItems updaters, applied in order to the ground pool
RECURSIVE GroundAfterAdds(_, _, _)
GroundAfterAdds(ground, chars, updates) ==
    IF updates = <<>> THEN ground
    ELSE LET update == Head(updates)
             found == FindIndexByName(chars, update.characterName) # 0
             next == IF found /\ update.action = "ADD"
                        /\ ~ HasName(ground, update.item.name)
                     THEN Append(ground, update.item) ELSE ground
         IN  GroundAfterAdds(next, chars, Tail(updates))

\* the setNearbyItems updater of response.nearbyItems
GroundAfterNearby(ground, items) ==
    LET newItems == SelectSeq(items, LAMBDA it : ~ HasName(ground, it.name))
    IN  IF Len(items) > 0 /\ Len(newItems) > 0 THEN ground \o newItems
        ELSE ground

\* the location of the response differs from the one of the map of the call
LocationChanged(closureMap, response) ==
    /\ response.mapData # <<>>
    /\ closureMap # <<>>
    /\ response.mapData[1].locationName # closureMap[1].locationName

\* The ground pool after the updaters a response queues: the ADD updates,
\* then nearbyItems, then setNearbyItems([]) when the location changed.
GroundAfterTurn(ground, chars, closureMap, response) ==
    LET afterAdds == GroundAfterAdds(ground, chars, response.inventoryUpdates)
        afterNearby == GroundAfterNearby(afterAdds, response.nearbyItems)
    IN  IF LocationChanged(closureMap, response) THEN <<>> ELSE afterNearby

\* response.characterStatusUpdates.forEach(...)
RECURSIVE ApplyStatusUpdates(_, _)
ApplyStatusUpdates(chars, updates) ==
    IF updates = <<>> THEN chars
    ELSE LET charIndex == FindIndexByName(chars, Head(updates).characterName)
         IN  ApplyStatusUpdates(
                IF charIndex = 0 THEN chars
                ELSE [chars EXCEPT ![charIndex].status = Head(updates).status],
                Tail(updates))

\* updatedCharacters after the three forEach loops of a response
UpdatedCharacters(chars, response) ==
    ApplyStatusUpdates(
        ApplyInventoryRemoves(
            ApplyResourceChanges(chars, response.resourceChanges),
            response.inventoryUpdates),
        response.characterStatusUpdates)

\* The roster the deltas of a response are applied to:
\* let updatedCharacters = [...activeCharacters], read after the await from
\* the closure of the submitTurn call.
TurnRoster == pendingTurn[1].activeCharacters

\* newGameResult
NewGameResult(response) ==
    IF response.isGameOver /\ response.gameResult # "absent"
    THEN (IF response.gameResult = "VICTORY" THEN "victory" ELSE "defeat")
    ELSE "null"

\* The entry of a resource change; the branch of a character that is not in
\* the roster logs the same text.
ChangeLog(change) ==
    Log("Sistema", change.resource, change.characterName, "", change.value,
        IF change.value < 0 THEN "damage" ELSE "gain")

\* The entries of the REMOVE branch.
RemoveLogs(chars, updates) ==
    UNION { LET update == updates[k]
                charIndex == FindIndexByName(chars, update.characterName)
            IN  IF charIndex = 0 \/ update.action # "REMOVE" THEN {}
                ELSE (IF update.cost # 0
                      THEN { Log("Comercio", "Gastou", "", "", update.cost,
                                 "system-info") }
                      ELSE {})
                     \cup { Log("Perda", "perdeu", chars[charIndex].name,
                                update.item.name, 0, "damage") } :
            k \in 1..Len(updates) }

\* The entries of the ADD updaters, each run on the ground pool the one
\* before it left.
RECURSIVE LootLogs(_, _, _)
LootLogs(ground, chars, updates) ==
    IF updates = <<>> THEN {}
    ELSE LET update == Head(updates)
             found == FindIndexByName(chars, update.characterName) # 0
             added == found /\ update.action = "ADD"
                         /\ ~ HasName(ground, update.item.name)
         IN  (IF added
              THEN { Log("Loot", "caiu no chao/encontrado.", "",
                         update.item.name, 0, "system-info") }
              ELSE {})
             \cup LootLogs(IF added THEN Append(ground, update.item)
                           ELSE ground, chars, Tail(updates))

\* The entries a response leaves in mechanicLogs.
TurnLogs(ground, chars, closureMap, response) ==
    LET afterAdds == GroundAfterAdds(ground, chars, response.inventoryUpdates)
        newItems == SelectSeq(response.nearbyItems,
                              LAMBDA it : ~ HasName(afterAdds, it.name))
    IN  { ChangeLog(response.resourceChanges[k]) :
            k \in 1..Len(response.resourceChanges) }
        \cup RemoveLogs(ApplyResourceChanges(chars, response.resourceChanges),
                        response.inventoryUpdates)
        \cup LootLogs(ground, chars, response.inventoryUpdates)
        \cup (IF Len(newItems) > 0
              THEN { Log("Ambiente", "novos itens no local.", "", "",
                         Len(newItems), "system-info") }
              ELSE {})
        \cup (IF LocationChanged(closureMap, response)
              THEN { Log("Ambiente", "Nova localizacao alcancada.", "", "", 0,
                         "system-info") }
              ELSE {})

\* submitTurn after the await, processTurn having resolved with response
TurnSuccess(response) ==
    /\ isProcessing
    /\ pendingTurn # <<>>
    /\ activeCharacters' = UpdatedCharacters(TurnRoster, response)
    /\ nearbyItems' = GroundAfterTurn(nearbyItems, TurnRoster,
                                      pendingTurn[1].mapData, response)
    /\ enemies' = IF response.activeEnemies # <<>>
                  THEN DefaultStatus(response.activeEnemies[1]) ELSE enemies
    /\ activeAllies' = IF response.activeAllies # <<>>
                       THEN DefaultStatus(response.activeAllies[1])
                       ELSE activeAllies
    /\ activeNeutrals' = IF response.activeNeutrals # <<>>
                         THEN response.activeNeutrals[1] ELSE activeNeutrals
    /\ timeData' = IF response.timeData # <<>> THEN response.timeData[1]
                   ELSE timeData
    /\ mapData' = IF response.mapData # <<>> THEN response.mapData ELSE mapData
    /\ history' = Append(history, GmEntry(response.storyText))
    /\ newLogs' = TurnLogs(nearbyItems, TurnRoster, pendingTurn[1].mapData,
                           response)
    /\ gameResult' = IF NewGameResult(response) # "null"
                     THEN NewGameResult(response) ELSE gameResult
    /\ isProcessing' = FALSE
    /\ pendingTurn' = <<>>
    /\ UNCHANGED <<UiVars, karmaMap, AppVars,
                   steps>>

\* A catch block that puts back the roster of the call.
TurnFailRestoring ==
    /\ isProcessing
    /\ pendingTurn # <<>>
    /\ activeCharacters' = TurnRoster
    /\ history' = Append(history, GmEntry(ErrorLine))
    /\ newLogs' = {}
    /\ isProcessing' = FALSE
    /\ pendingTurn' = <<>>
    /\ UNCHANGED <<nearbyItems, activeNeutrals, UiVars, WorldVars, gameResult,
                   karmaMap, AppVars, steps>>

\* submitTurn after the await, processTurn having thrown: catch and finally
TurnFail ==
    /\ isProcessing
    /\ pendingTurn # <<>>
    /\ history' = Append(history, GmEntry(ErrorLine))
    /\ newLogs' = {}
    /\ isProcessing' = FALSE
    /\ pendingTurn' = <<>>
    /\ UNCHANGED <<activeCharacters, nearbyItems, activeNeutrals, UiVars,
                   WorldVars, gameResult, karmaMap, AppVars, steps>>

----------------------------------------------------------------------------
CharIds == { activeCharacters[k].id : k \in 1..Len(activeCharacters) }

Next ==
    \/ \E c \in CharIds, i \in 1..3 : handleTakeItem(c, i)
    \/ \E c \in CharIds, i \in 1..9 : handleDropItem(c, i)
    \/ \E c \in CharIds, i \in 1..9 : ToggleGiveMenu(c, i)
    \/ \E c \in CharIds, t \in CharIds, i \in 1..9 : handleGiveItem(c, t, i)
    \/ \E c \in CharIds, i \in 1..9 : handleUseItem(c, i)
    \/ \E c \in CharIds, i \in 1..9 : handleEquipItem(c, i)
    \/ \E c \in CharIds, s \in Slots : handleUnequipItem(c, s)
    \/ \E n \in 1..2 : OpenTrade(n)
    \/ CloseTrade
    \/ \E c \in CharIds, i \in 1..4 : handleBuyItem(c, i)
    \/ \E c \in CharIds, i \in 1..9 : handleSellItem(c, i)
    \/ SubmitTurn
    \/ \E r \in Responses : TurnSuccess(r)
    \/ TurnFail

Spec == Init /\ [][Next]_vars

----------------------------------------------------------------------------
\* The dice engine on its own: rollDie applied to any entity with any of the
\* seven dice, any number of times.

RollDieStep(type, entityId) ==
    /\ \E first \in 1..Sides(type) :
          \E second \in SecondDraws(Sides(type), karmaMap[entityId], first) :
             karmaMap' = rollDie(karmaMap, type, entityId, first, second)
    /\ UNCHANGED <<activeCharacters, nearbyItems, activeNeutrals, UiVars,
                   WorldVars, history, isProcessing, gameResult, pendingTurn,
                   AppVars, newLogs, steps>>

NextDice ==
    \E k \in 1..Len(diceOptions), e \in DOMAIN karmaMap :
        RollDieStep(diceOptions[k], e)

SpecDice == Init /\ [][NextDice]_vars

----------------------------------------------------------------------------
----------------------------------------------------------------------------
\* The session: App.tsx with WorldSetup, CharacterCreation and the narrative
\* view.  App keeps its state in localStorage, so that a reload of the page
\* mounts the component of the saved phase again with the saved props.

NarrativeVars ==
    <<activeCharacters, history, isProcessing, gameResult, WorldVars,
      activeNeutrals, nearbyItems, karmaMap, UiVars, pendingTurn, newLogs>>

\* The frame of the steps of WorldSetup.handleGenerate.
SetupStep ==
    /\ phase = "SETUP"
    /\ UNCHANGED <<NarrativeVars, permadeathEnabled, karmicDiceEnabled,
                   mounted, creation, loadingStory, characters, retry, steps>>

\* What the player gives handleGenerate: the random mode, the manual mode
\* with a blank idea, the manual mode with an idea.
WorldInputs == {"random", "blank", "idea"}

\* WorldSetup.handleGenerate up to its await, from the "Criar Mundo" button;
\* a blank idea ends the handler with its message.
handleGenerate(input) ==
    /\ SetupStep
    /\ ~ worldSetup.loading
    /\ worldSetup' = IF input = "blank"
                     THEN [loading |-> FALSE, error |-> <<"describe">>]
                     ELSE [loading |-> TRUE, error |-> <<>>]
    /\ UNCHANGED phase

\* handleGenerate after the await, generateWorldPremise having thrown: catch
\* and finally
handleGenerateFail ==
    /\ SetupStep
    /\ worldSetup.loading
    /\ worldSetup' = [loading |-> FALSE, error |-> <<"failed">>]
    /\ UNCHANGED phase

\* handleGenerate after the await with the world: App.handleWorldCreated,
\* which takes WorldSetup off the screen
handleWorldCreated ==
    /\ phase = "SETUP"
    /\ worldSetup.loading
    /\ phase' = "CHARACTER_CREATION"
    /\ creation' = CreationInitial
    /\ worldSetup' = WorldSetupInitial
    /\ UNCHANGED <<NarrativeVars, permadeathEnabled, karmicDiceEnabled,
                   mounted, loadingStory, characters, retry, steps>>

\* The frame of the handlers of CharacterCreation.
CreationStep ==
    /\ phase = "CHARACTER_CREATION"
    /\ ~ loadingStory
    /\ UNCHANGED <<NarrativeVars, permadeathEnabled, karmicDiceEnabled,
                   mounted, phase, worldSetup, loadingStory, characters,
                   retry>>

\* The creation mode toggle, rendered while no attributes are generated
SetCreationMode(mode) ==
    /\ CreationStep
    /\ creation.generatedAttributes = <<>>
    /\ creation.creationMode # mode
    /\ creation' = [creation EXCEPT !.creationMode = mode]
    /\ UNCHANGED steps

\* handleGenerateDetails up to its await
GenerateStart ==
    /\ CreationStep
    /\ creation.generating = "no"
    /\ creation' = [creation EXCEPT
                       !.generating = creation.creationMode,
                       !.generatedAttributes = <<>>,
                       !.generatedDerived = <<>>,
                       !.generatedItems = <<>>,
                       !.generatedWealth = 0]
    /\ UNCHANGED steps

\* geminiService.generateCharacterDetails: the derived stats added to the
\* data of the Oracle
generateCharacterDetails(data) ==
    [attributes |-> data.attributes, startingItems |-> data.startingItems,
     wealth |-> data.wealth,
     derived |-> [hp      |-> 10 + (data.attributes.CON * 5),
                  stamina |-> 5 + ((data.attributes.FOR
                                      + data.attributes.AGI) * 2),
                  mana    |-> 5 + (data.attributes.INT * 3)]]

\* The data the Oracle answers a character concept with.
CharacterData ==
    { [attributes |-> [BaseAttributes EXCEPT !.CON = 3, !.INT = 2, !.FOR = 5],
       startingItems |-> <<Potion, Sword>>, wealth |-> 4] }

\* handleGenerateDetails after its await, the Oracle having answered
GenerateDone(data) ==
    LET details == generateCharacterDetails(data)
    IN  /\ CreationStep
        /\ creation.generating # "no"
        /\ creation' =
             IF creation.generating = "auto"
             THEN [creation EXCEPT
                      !.generatedItems = details.startingItems,
                      !.generatedWealth = details.wealth,
                      !.generatedAttributes = << details.attributes >>,
                      !.generatedDerived = << details.derived >>,
                      !.generating = "no"]
             ELSE [creation EXCEPT
                      !.generatedItems = details.startingItems,
                      !.generatedWealth = details.wealth,
                      !.generatedAttributes = << BaseAttributes >>,
                      !.pointsPool = 16,
                      !.generatedDerived =
                          << calculateDerived(BaseAttributes) >>,
                      !.generating = "no"]
        /\ UNCHANGED steps

\* handleGenerateDetails after its await, the call having failed
GenerateFail ==
    /\ CreationStep
    /\ creation.generating # "no"
    /\ creation' = [creation EXCEPT !.generating = "no"]
    /\ UNCHANGED steps

\* The attributes whose buttons the players press in manual mode.
ManualAttributes == {"CON", "INT"}

\* updateManualAttribute that keeps the derived stats it finds.
updateManualAttributeStale(attr, change) ==
    /\ CreationStep
    /\ creation.creationMode = "manual"
    /\ creation.generatedAttributes # <<>>
    /\ steps < MaxSteps
    /\ steps' = steps + 1
    /\ LET currentVal == creation.generatedAttributes[1][attr]
           newVal == currentVal + change
       IN  /\ ~ (change < 0 /\ currentVal <= 1)
           /\ ~ (change > 0 /\ (currentVal >= 5 \/ creation.pointsPool <= 0))
           /\ creation' =
                IF newVal < 1 \/ newVal > 5 THEN creation
                ELSE IF change > 0 /\ creation.pointsPool <= 0 THEN creation
                ELSE [creation EXCEPT
                         !.generatedAttributes =
                             << [creation.generatedAttributes[1]
                                    EXCEPT ![attr] = newVal] >>,
                         !.pointsPool = @ - change]

\* updateManualAttribute, from the + and - buttons of manual mode
updateManualAttribute(attr, change) ==
    /\ CreationStep
    /\ creation.creationMode = "manual"
    /\ creation.generatedAttributes # <<>>
    /\ steps < MaxSteps
    /\ steps' = steps + 1
    /\ LET currentVal == creation.generatedAttributes[1][attr]
           newVal == currentVal + change
           newAttrs == [creation.generatedAttributes[1]
                           EXCEPT ![attr] = newVal]
       IN  /\ ~ (change < 0 /\ currentVal <= 1)
           /\ ~ (change > 0 /\ (currentVal >= 5 \/ creation.pointsPool <= 0))
           /\ creation' =
                IF newVal < 1 \/ newVal > 5 THEN creation
                ELSE IF change > 0 /\ creation.pointsPool <= 0 THEN creation
                ELSE [creation EXCEPT
                         !.generatedAttributes = << newAttrs >>,
                         !.pointsPool = @ - change,
                         !.generatedDerived =
                             << calculateDerived(newAttrs) >>]

\* The names the players type and the ids crypto.randomUUID returns, by
\* position in the party.
CharacterNames == <<"Ana", "Bo">>
CharacterIds == <<"c1", "c2">>

\* addCharacter; the party of the model has two members
addCharacter ==
    /\ CreationStep
    /\ creation.generatedAttributes # <<>>
    /\ creation.generatedDerived # <<>>
    /\ Len(creation.characters) < 2
    /\ LET n == Len(creation.characters) + 1
           newChar == [id |-> CharacterIds[n], name |-> CharacterNames[n],
                       attributes |-> creation.generatedAttributes[1],
                       derived |-> creation.generatedDerived[1],
                       items |-> creation.generatedItems,
                       equipment |-> [s \in {} |-> Potion],
                       wealth |-> creation.generatedWealth]
       IN  creation' = [creation EXCEPT
                           !.characters = Append(@, newChar),
                           !.generatedAttributes = <<>>,
                           !.generatedDerived = <<>>,
                           !.generatedItems = <<>>,
                           !.generatedWealth = 0,
                           !.pointsPool = 16]
    /\ UNCHANGED steps

\* removeCharacter, of the character added last
removeCharacter ==
    /\ CreationStep
    /\ Len(creation.characters) > 0
    /\ creation' = [creation EXCEPT
                       !.characters = SubSeq(@, 1, Len(@) - 1)]
    /\ UNCHANGED steps

\* The narrative view as it is mounted with the props of App.
MountNarrative(props) ==
    /\ activeCharacters' = DefaultStatus(props.characters)
    /\ enemies' = DefaultStatus(props.initialEnemies)
    /\ mapData' = props.initialMapData
    /\ history' = << GmEntry("intro") >>
    /\ isProcessing' = FALSE
    /\ gameResult' = "null"
    /\ activeAllies' = <<>>
    /\ activeNeutrals' = <<>>
    /\ nearbyItems' = <<>>
    /\ karmaMap' = [c \in {"c1", "c2"} |-> 0]
    /\ timeData' = InitialTime
    /\ tradeTarget' = <<>>
    /\ givingItem' = <<>>
    /\ pendingTurn' = <<>>
    /\ newLogs' = {}

\* The scene startNarrative answers with: enemies and map.
OpeningScenes == { << <<>>, <<Forest>> >> }

\* App.handleCharactersComplete up to its await, from the "Iniciar Aventura"
\* button; the screen takes no clicks while loadingStory is set (line 221)
handleCharactersComplete ==
    /\ phase = "CHARACTER_CREATION"
    /\ ~ loadingStory
    /\ Len(creation.characters) = 2
    /\ creation.generating = "no"
    /\ steps < MaxSteps
    /\ steps' = steps + 1
    /\ characters' = creation.characters
    /\ loadingStory' = TRUE
    /\ UNCHANGED <<NarrativeVars, permadeathEnabled, karmicDiceEnabled,
                   phase, mounted, creation, worldSetup, retry>>

\* handleCharactersComplete after the await with the answer of
\* startNarrative: the narrative view is mounted
StartNarrativeDone(scene) ==
    /\ phase = "CHARACTER_CREATION"
    /\ loadingStory
    /\ phase' = "NARRATIVE"
    /\ mounted' = << [characters |-> characters,
                     initialEnemies |-> scene[1],
                     initialMapData |-> scene[2]] >>
    /\ MountNarrative(mounted'[1])
    /\ creation' = CreationInitial
    /\ loadingStory' = FALSE
    /\ UNCHANGED <<permadeathEnabled, karmicDiceEnabled, worldSetup,
                   characters, retry, steps>>

\* A failure that takes the creation screen down and puts up a new one.
StartNarrativeFailLosingParty ==
    /\ phase = "CHARACTER_CREATION"
    /\ loadingStory
    /\ loadingStory' = FALSE
    /\ creation' = CreationInitial
    /\ UNCHANGED <<NarrativeVars, permadeathEnabled, karmicDiceEnabled,
                   phase, mounted, worldSetup, characters, retry, steps>>

\* handleCharactersComplete after the await, startNarrative having thrown:
\* the alert and the finally block
StartNarrativeFail ==
    /\ phase = "CHARACTER_CREATION"
    /\ loadingStory
    /\ loadingStory' = FALSE
    /\ UNCHANGED <<NarrativeVars, permadeathEnabled, karmicDiceEnabled,
                   phase, mounted, creation, worldSetup, characters, retry,
                   steps>>

\* window.location.reload(), from the browser or from the "Jogar Novamente"
\* button of the game-over screen: App starts again from the state it saved
Reload ==
    /\ UNCHANGED <<permadeathEnabled, karmicDiceEnabled, phase, mounted,
                   characters, retry, steps>>
    /\ creation' = CreationInitial
    /\ worldSetup' = WorldSetupInitial
    /\ loadingStory' = FALSE
    /\ IF phase = "NARRATIVE"
       THEN MountNarrative(mounted[1])
       ELSE UNCHANGED NarrativeVars

\* The state of a browser that has nothing saved, at the moment WorldSetup
\* has its default settings.
InitSession ==
    /\ phase = "SETUP"
    /\ karmicDiceEnabled = TRUE
    /\ permadeathEnabled = FALSE
    /\ mounted = <<>>
    /\ creation = CreationInitial
    /\ worldSetup = WorldSetupInitial
    /\ loadingStory = FALSE
    /\ retry = RetryIdle
    /\ characters = <<>>
    /\ activeCharacters = <<>>
    /\ enemies = <<>>
    /\ mapData = <<>>
    /\ history = <<>>
    /\ isProcessing = FALSE
    /\ gameResult = "null"
    /\ activeAllies = <<>>
    /\ activeNeutrals = <<>>
    /\ nearbyItems = <<>>
    /\ karmaMap = [c \in {"c1", "c2"} |-> 0]
    /\ timeData = InitialTime
    /\ tradeTarget = <<>>
    /\ givingItem = <<>>
    /\ pendingTurn = <<>>
    /\ newLogs = {}
    /\ steps = 0

\* The handlers of the narrative view, which exist while it is mounted.
Mounted(handler) == phase = "NARRATIVE" /\ handler

NextSession ==
    \/ \E input \in WorldInputs : handleGenerate(input)
    \/ handleGenerateFail
    \/ handleWorldCreated
    \/ \E mode \in {"auto", "manual"} : SetCreationMode(mode)
    \/ GenerateStart
    \/ \E data \in CharacterData : GenerateDone(data)
    \/ GenerateFail
    \/ \E attr \in ManualAttributes, change \in {1, -1} :
          updateManualAttribute(attr, change)
    \/ addCharacter
    \/ removeCharacter
    \/ handleCharactersComplete
    \/ \E scene \in OpeningScenes : StartNarrativeDone(scene)
    \/ StartNarrativeFail
    \/ Reload
    \/ \E c \in CharIds, i \in 1..3 : Mounted(handleTakeItem(c, i))
    \/ \E c \in CharIds, i \in 1..9 : Mounted(handleDropItem(c, i))
    \/ \E c \in CharIds, i \in 1..9 : Mounted(ToggleGiveMenu(c, i))
    \/ \E c \in CharIds, t \in CharIds, i \in 1..9 :
          Mounted(handleGiveItem(c, t, i))
    \/ \E c \in CharIds, i \in 1..9 : Mounted(handleUseItem(c, i))
    \/ \E c \in CharIds, i \in 1..9 : Mounted(handleEquipItem(c, i))
    \/ \E c \in CharIds, s \in Slots : Mounted(handleUnequipItem(c, s))
    \/ \E n \in 1..2 : Mounted(OpenTrade(n))
    \/ Mounted(CloseTrade)
    \/ \E c \in CharIds, i \in 1..4 : Mounted(handleBuyItem(c, i))
    \/ \E c \in CharIds, i \in 1..9 : Mounted(handleSellItem(c, i))
    \/ Mounted(SubmitTurn)
    \/ \E r \in Responses : Mounted(TurnSuccess(r))
    \/ Mounted(TurnFail)

SpecSession == InitSession /\ [][NextSession]_vars

\* Properties.

Bag(k) == activeCharacters[k].items
Party == 1..Len(activeCharacters)

\* C1: starting from bags within their limit, after any sequence of take,
\* give, buy, equip and unequip operations every character holds at most
\* 7 + (capacityBonus of the item in the back slot, 0 when it is empty) items.
CapacityInvariant ==
    \A k \in Party :
        Len(Bag(k)) <= 7 + (IF "back" \in DOMAIN activeCharacters[k].equipment
                            THEN activeCharacters[k].equipment["back"].capacityBonus
                            ELSE 0)

\* C2: starting from bags without duplicate names, no bag ever holds two
\* items of the same name.
NoDuplicateNames ==
    \A k \in Party :
        \A i, j \in 1..Len(Bag(k)) : i # j => Bag(k)[i].name # Bag(k)[j].name

\* A call of one of the five handlers the combat lock covers.
LockedHandlerStep ==
    \/ \E c \in CharIds, i \in 1..3 : handleTakeItem(c, i)
    \/ \E c \in CharIds, i \in 1..9 : handleDropItem(c, i)
    \/ \E c \in CharIds, t \in CharIds, i \in 1..9 : handleGiveItem(c, t, i)
    \/ \E c \in CharIds, i \in 1..4 : handleBuyItem(c, i)
    \/ \E c \in CharIds, i \in 1..9 : handleSellItem(c, i)

\* C3: while the enemy roster is non-empty a call of takeItem, dropItem,
\* giveItem, buyItem or sellItem changes no bag, no wealth, not the ground
\* pool and no merchant's stock, also when the give menu or the trade modal
\* was opened before the enemies appeared.
CombatLock ==
    [][(Len(enemies) > 0 /\ LockedHandlerStep)
          => UNCHANGED <<activeCharacters, nearbyItems, activeNeutrals>>]_vars

\* C4: the deltas of a turn are applied to the roster as it is when the
\* response arrives, so that an inventory, equipment or trade action made
\* while the Oracle call was pending is still reflected after the turn.
TurnAppliesToCurrentRoster ==
    [][\A r \in Responses :
          TurnSuccess(r)
             => activeCharacters' = UpdatedCharacters(activeCharacters, r)]_vars

\* A turn completes with the fallback line as the last history entry.
TurnFailed ==
    /\ isProcessing
    /\ ~ isProcessing'
    /\ history'[Len(history')] = GmEntry(ErrorLine)

\* C5: a turn whose Oracle call fails applies no delta: characters, enemies,
\* allies, neutrals, ground pool, map and time stay as they were, exactly one
\* GM entry (the fallback line) is appended to the history and no game result
\* is set.
FailedTurnAppliesNothing ==
    [][TurnFailed
          => /\ UNCHANGED <<activeCharacters, enemies, activeAllies,
                            activeNeutrals, nearbyItems, mapData, timeData>>
             /\ history' = Append(history, GmEntry(ErrorLine))
             /\ gameResult' = gameResult
             /\ gameResult' = "null"]_vars

\* A turn has failed in a session whose bags were changed by the players.
FailedTurnWitness ==
    /\ ~ isProcessing
    /\ history[Len(history)] = GmEntry(ErrorLine)
    /\ \E k \in Party : /\ Len(Bag(k)) # Len(PartyA[k].items)
                        /\ Len(Bag(k)) # Len(PartyB[k].items)

\* C6: with permadeath off, hp, mana and stamina of every character are >= 0
\* after any sequence of turns and useItem operations.
ResourceClamp ==
    ~ permadeathEnabled
       => \A k \in Party :
             /\ activeCharacters[k].derived.hp >= 0
             /\ activeCharacters[k].derived.mana >= 0
             /\ activeCharacters[k].derived.stamina >= 0

\* With permadeath off, a lethal change has left a character at exactly 0.
ResourceClampWitness ==
    /\ ~ permadeathEnabled
    /\ \E k \in Party : activeCharacters[k].derived.hp = 0

\* The responses that carry a single negative hp change for a character of
\* the roster.
SingleHpLoss(r) ==
    /\ Len(r.resourceChanges) = 1
    /\ r.resourceChanges[1].resource = "hp"
    /\ r.resourceChanges[1].value < 0
    /\ FindIndexByName(activeCharacters, r.resourceChanges[1].characterName) # 0

\* C7: with permadeath on, an hp change that would take a character with
\* hp > 1 to 0 or below leaves it at hp = 1, and a negative hp change on a
\* character at hp = 1 sets its hp to 0.
OneLifeBuffer ==
    [][\A r \in Responses :
          (permadeathEnabled /\ SingleHpLoss(r) /\ TurnSuccess(r)
              /\ TurnRoster = activeCharacters)
             => LET k == FindIndexByName(activeCharacters,
                                         r.resourceChanges[1].characterName)
                    h == activeCharacters[k].derived.hp
                    v == r.resourceChanges[1].value
                IN  /\ (h > 1 /\ h + v <= 0)
                          => activeCharacters'[k].derived.hp = 1
                    /\ (h = 1) => activeCharacters'[k].derived.hp = 0]_vars

\* The items a response introduces, put in an emptied ground pool.
IntroducedItems(chars, r) ==
    GroundAfterNearby(GroundAfterAdds(<<>>, chars, r.inventoryUpdates),
                      r.nearbyItems)

\* C8: when the response names another location than the current map, the
\* ground pool is emptied before the items of that response are added: after
\* the turn it holds exactly the items the response introduced.
LocationChangeKeepsNewItems ==
    [][\A r \in Responses :
          (TurnSuccess(r) /\ LocationChanged(mapData, r))
             => nearbyItems' = IntroducedItems(activeCharacters, r)]_vars

\* C9: for every entity the karma streak stays within [-5, +5] after any
\* sequence of rolls of any of the dice, with karmic dice enabled or
\* disabled.
KarmaClamp == \A e \in DOMAIN karmaMap : karmaMap[e] >= -5 /\ karmaMap[e] <= 5

\* Both ends of the range are reached, with the bias on and with it off.
KarmaClampWitness ==
    /\ karmaMap["c1"] = 5
    /\ karmaMap["c2"] = -5

\* The result a response stands for: victory or defeat only when the game is
\* over with that result.
ExpectedGameResult(r) ==
    IF r.isGameOver /\ r.gameResult = "VICTORY" THEN "victory"
    ELSE IF r.isGameOver /\ r.gameResult = "DEFEAT" THEN "defeat"
    ELSE "null"

\* C10: after a successful turn the game result is victory exactly when the
\* response has isGameOver and VICTORY, defeat exactly when it has isGameOver
\* and DEFEAT, and is not set for every other response.
GameResultMapping ==
    [][\A r \in Responses :
          TurnSuccess(r) => gameResult' = ExpectedGameResult(r)]_vars

\* A submitTurn starts: the players' entry is appended to the history.
TurnStarts ==
    /\ Len(history') = Len(history) + 1
    /\ history'[Len(history')].role = "player"

\* C11: at most one turn is in flight: between a submitTurn and the
\* completion of its Oracle call no second submitTurn starts, that is, a
\* turn only starts when none is being processed.
SingleTurnInFlight ==
    [][TurnStarts => (~ isProcessing /\ pendingTurn = <<>>)]_vars

\* A turn is in flight and the players could still afford another one.
SingleTurnInFlightWitness ==
    /\ isProcessing
    /\ pendingTurn # <<>>
    /\ gameResult = "null"
    /\ steps + 2 <= MaxSteps

\* C12: sellItem always succeeds as a cash transaction: it removes exactly
\* the sold item from the seller's bag, adds floor((item.price or 10) / 2) to
\* the seller's wealth and appends the item to the shopItems of the merchant
\* being traded with, whatever its stock; no other character and no other
\* merchant changes.
SellIsCashTransaction ==
    [][\A c \in CharIds, i \in 1..9 :
          handleSellItem(c, i)
             => LET k == FindIndexById(activeCharacters, c)
                    item == Bag(k)[i]
                    pay == IF item.price = 0 THEN 5 ELSE item.price \div 2
                IN  /\ activeCharacters'[k] =
                          [activeCharacters[k] EXCEPT
                              !.items = RemoveAt(Bag(k), i),
                              !.wealth = activeCharacters[k].wealth + pay]
                    /\ \A j \in Party \ {k} :
                          activeCharacters'[j] = activeCharacters[j]
                    /\ tradeTarget'[1].shopItems =
                          Append(tradeTarget[1].shopItems, item)
                    /\ Len(activeNeutrals') = Len(activeNeutrals)
                    /\ \A j \in 1..Len(activeNeutrals) :
                          activeNeutrals'[j] =
                             IF activeNeutrals[j].id = tradeTarget[1].id
                             THEN [activeNeutrals[j] EXCEPT !.shopItems =
                                      Append(activeNeutrals[j].shopItems, item)]
                             ELSE activeNeutrals[j]]_vars

\* An item without a price has been sold to the merchant of the roster, who
\* owns it now next to the initial stock.
SellWitness ==
    /\ tradeTarget # <<>>
    /\ \E j \in 1..Len(activeNeutrals) :
          /\ activeNeutrals[j].id = tradeTarget[1].id
          /\ Len(activeNeutrals[j].shopItems) = 3
          /\ activeNeutrals[j].shopItems[3].price = 0
    /\ \E k \in Party : activeCharacters[k].wealth \in {5, 15}

\* The purchase of a priced item by a character: what the claim expects.
ExpectedPurchase(c, item) ==
    IF c.wealth >= item.price
       /\ Len(c.items) < 7 + (IF "back" \in DOMAIN c.equipment
                              THEN c.equipment["back"].capacityBonus ELSE 0)
    THEN [c EXCEPT !.wealth = c.wealth - item.price,
                   !.items = Append(c.items, item)]
    ELSE c

\* C13: buyItem of a priced item, when the buyer's wealth >= price and the
\* bag is below its limit, takes exactly the price from the buyer's wealth
\* and appends the item to the buyer's bag; when wealth < price or the bag is
\* full it changes neither; the merchant's shopItems are unchanged in both
\* cases.  The first conjunct states it for every character and every priced
\* item of the catalogue, the second for the calls made from the trade modal.
BuyContract ==
    [][/\ \A k \in Party, item \in {Potion, Pack} :
             BuyInto(activeCharacters[k], item)
                = ExpectedPurchase(activeCharacters[k], item)
       /\ \A c \in CharIds, i \in 1..4 :
             handleBuyItem(c, i)
                => LET k == FindIndexById(activeCharacters, c)
                       item == tradeTarget[1].shopItems[i]
                   IN  /\ item.price > 0
                          => activeCharacters'[k]
                                = ExpectedPurchase(activeCharacters[k], item)
                       /\ \A j \in Party \ {k} :
                             activeCharacters'[j] = activeCharacters[j]
                       /\ activeNeutrals' = activeNeutrals
                       /\ tradeTarget' = tradeTarget]_vars

\* Bo has bought a second Potion with his last 4 coins while Ana, who can
\* pay, has a full bag; the merchant still has the initial stock.
BuyWitness ==
    /\ tradeTarget # <<>>
    /\ tradeTarget[1].shopItems = <<Potion, Pack>>
    /\ activeCharacters[2].wealth = 0
    /\ activeCharacters[2].items = <<Potion, Potion>>
    /\ activeCharacters[1].wealth >= Potion.price
    /\ Len(activeCharacters[1].items) = 7
    /\ "back" \notin DOMAIN activeCharacters[1].equipment

\* The limit of a bag: 7 plus the bonus of the item on the back.
BagLimit(c) ==
    7 + (IF "back" \in DOMAIN c.equipment
         THEN c.equipment["back"].capacityBonus ELSE 0)

\* equipItem of the bag item at position i, as the claim states it.
EquipAsClaimed(c, r, i) ==
    LET item == c.items[i]
    IN  IF item.slot \in DOMAIN c.equipment THEN r = c
        ELSE /\ DOMAIN r.equipment = DOMAIN c.equipment \cup {item.slot}
             /\ r.equipment[item.slot] = item
             /\ \A s \in DOMAIN c.equipment : r.equipment[s] = c.equipment[s]
             /\ Len(r.items) = Len(c.items) - 1
             /\ r.items = RemoveAt(c.items, i)
             /\ r.wealth = c.wealth /\ r.derived = c.derived

\* unequipItem of an occupied slot, as the claim states it.
UnequipAsClaimed(c, r, slot) ==
    IF Len(c.items) >= BagLimit(c) THEN r = c
    ELSE /\ DOMAIN r.equipment = DOMAIN c.equipment \ {slot}
         /\ \A s \in DOMAIN r.equipment : r.equipment[s] = c.equipment[s]
         /\ r.items = Append(c.items, c.equipment[slot])
         /\ r.wealth = c.wealth /\ r.derived = c.derived

\* C14: equipItem on a bag item whose slot is empty moves the item out of
\* the bag into the slot (the bag shrinks by one) and changes nothing when
\* the slot is occupied; unequipItem is rejected when the bag is at its limit
\* (the slot keeps its item) and otherwise moves the item from the slot back
\* into the bag.  Stated for every character of every reachable roster with
\* every bag item that has a slot and every occupied slot, and for the calls
\* made from the inventory tab.
EquipContract ==
    [][/\ \A k \in Party :
             /\ \A i \in 1..Len(Bag(k)) :
                   Bag(k)[i].slot # "none"
                      => EquipAsClaimed(activeCharacters[k],
                                        EquipOn(activeCharacters[k],
                                                Bag(k)[i], i), i)
             /\ \A s \in DOMAIN activeCharacters[k].equipment :
                   UnequipAsClaimed(activeCharacters[k],
                                    UnequipOn(activeCharacters[k], s), s)
       /\ \A c \in CharIds, i \in 1..9 :
             handleEquipItem(c, i)
                => LET k == FindIndexById(activeCharacters, c)
                   IN  /\ EquipAsClaimed(activeCharacters[k],
                                         activeCharacters'[k], i)
                       /\ \A j \in Party \ {k} :
                             activeCharacters'[j] = activeCharacters[j]
       /\ \A c \in CharIds, s \in Slots :
             handleUnequipItem(c, s)
                => LET k == FindIndexById(activeCharacters, c)
                   IN  /\ UnequipAsClaimed(activeCharacters[k],
                                           activeCharacters'[k], s)
                       /\ \A j \in Party \ {k} :
                             activeCharacters'[j] = activeCharacters[j]]_vars

\* Ana has equipped her Sword and then filled her bag to its limit of 7: the
\* state in which unequipItem is rejected.
EquipWitness ==
    /\ "hands" \in DOMAIN activeCharacters[1].equipment
    /\ activeCharacters[1].equipment["hands"] = Sword
    /\ Len(activeCharacters[1].items) = 7
    /\ "back" \notin DOMAIN activeCharacters[1].equipment

\* C16: with permadeath on, death is terminal: once a character's hp has
\* reached 0 it stays at 0 under every later resourceChange and useItem, and
\* a turn submitted while the character is dead makes no die roll for it.
DeathIsTerminal ==
    [][permadeathEnabled
          => \A k \in Party :
                activeCharacters[k].derived.hp = 0
                   => /\ Len(activeCharacters') = Len(activeCharacters)
                      /\ activeCharacters'[k].derived.hp = 0
                      /\ TurnStarts
                            => karmaMap'[activeCharacters[k].id]
                                  = karmaMap[activeCharacters[k].id]]_vars

\* The number of faces the name of a die stands for.
Faces ==
    [D4 |-> 4, D6 |-> 6, D8 |-> 8, D10 |-> 10, D12 |-> 12, D20 |-> 20,
     D100 |-> 100]

\* The streak after a roll, as the claim states it.
StreakAsClaimed(streak, success) ==
    IF success
    THEN IF streak >= 0 THEN (IF streak + 1 < 5 THEN streak + 1 ELSE 5) ELSE 1
    ELSE IF streak <= 0 THEN (IF streak - 1 > -5 THEN streak - 1 ELSE -5)
         ELSE -1

\* C18: every roll updates the streak of the rolled entity, with karmic dice
\* enabled or not and with or without a bias: success is result > ceil(N/2);
\* on success the streak becomes min(streak + 1, 5) if it was >= 0 and +1
\* otherwise, on failure max(streak - 1, -5) if it was <= 0 and -1
\* otherwise.  Stated for every roll that can be made in a reachable state.
StreakUpdate ==
    \A e \in DOMAIN karmaMap, k \in 1..Len(diceOptions) :
       LET N == Faces[diceOptions[k]]
           half == (N \div 2) + (N % 2)
       IN  \A first \in 1..N :
              \A second \in SecondDraws(N, karmaMap[e], first) :
                 LET result == RollResult(karmaMap[e], first, second)
                     after == rollDie(karmaMap, diceOptions[k], e, first,
                                      second)
                 IN  /\ after[e] = StreakAsClaimed(karmaMap[e], result > half)
                     /\ \A o \in DOMAIN karmaMap \ {e} : after[o] = karmaMap[o]

\* With karmic dice disabled, rolls have taken one streak up and the other
\* down.
StreakUpdateWitness ==
    /\ ~ karmicDiceEnabled
    /\ karmaMap["c1"] = 3
    /\ karmaMap["c2"] = -3

\* C19: a roll returns an integer in [1, N]; with karmic dice enabled it is
\* the maximum of two draws when the streak of the entity is <= -2, the
\* minimum of two draws when it is >= +2 and the single base draw when it is
\* in [-1, +1]; with karmic dice disabled it is always the single base draw.
\* Stated for every roll that can be made in a reachable state.
RollContract ==
    \A e \in DOMAIN karmaMap, k \in 1..Len(diceOptions) :
       LET N == Faces[diceOptions[k]]
           streak == karmaMap[e]
           biased == karmicDiceEnabled /\ (streak <= -2 \/ streak >= 2)
       IN  \A first \in 1..N :
              /\ SecondDraws(N, streak, first)
                    = (IF biased THEN 1..N ELSE {first})
              /\ \A second \in SecondDraws(N, streak, first) :
                    LET result == RollResult(streak, first, second)
                    IN  /\ result \in 1..N
                        /\ (karmicDiceEnabled /\ streak <= -2)
                              => result = (IF first >= second THEN first
                                           ELSE second)
                        /\ (karmicDiceEnabled /\ streak >= 2)
                              => result = (IF first <= second THEN first
                                           ELSE second)
                        /\ ~ biased => result = first

\* With karmic dice enabled one entity is on a losing streak and the other on
\* a winning streak: both biases apply.
RollContractWitness ==
    /\ karmicDiceEnabled
    /\ karmaMap["c1"] <= -2
    /\ karmaMap["c2"] >= 2

\* C20: a takeItem rejected because the character already holds an item of
\* that name or because the bag is at its limit changes neither the ground
\* pool nor the bag; an accepted takeItem removes exactly that item from the
\* ground pool and appends it to the bag.
TakeContract ==
    [][\A c \in CharIds, i \in 1..3 :
          handleTakeItem(c, i)
             => LET k == FindIndexById(activeCharacters, c)
                    item == nearbyItems[i]
                IN  IF \/ \E n \in 1..Len(Bag(k)) : Bag(k)[n].name = item.name
                       \/ Len(Bag(k)) >= BagLimit(activeCharacters[k])
                    THEN /\ activeCharacters' = activeCharacters
                         /\ nearbyItems' = nearbyItems
                    ELSE /\ activeCharacters' =
                               [activeCharacters EXCEPT
                                   ![k].items = Append(Bag(k), item)]
                         /\ nearbyItems' = RemoveAt(nearbyItems, i)]_vars

----------------------------------------------------------------------------
\* The derived stats the creation screen promises for a set of attributes.
DerivedAsClaimed(c) ==
    /\ c.derived.hp = 10 + c.attributes.CON * 5
    /\ c.derived.stamina = 5 + (c.attributes.FOR + c.attributes.AGI) * 2
    /\ c.derived.mana = 5 + c.attributes.INT * 3

\* A step of the narrative view that completes a turn or uses an item.
ResourceStep ==
    \/ \E r \in Responses : TurnSuccess(r)
    \/ \E c \in CharIds, i \in 1..9 : handleUseItem(c, i)

\* C15: every character added to the party, in automatic and in manual
\* mode, has hp = 10 + CON*5, stamina = 5 + (FOR+AGI)*2 and mana = 5 + INT*3
\* of the attributes it is created with, and so has every character of the
\* party the narrative view is first given; afterwards the handlers of the
\* narrative view leave the attributes alone and the derived stats change
\* only when a turn completes or an item is used, never back to the formula.
DerivedComputedOnce ==
    [][ /\ \A k \in 1..Len(creation.characters') :
              DerivedAsClaimed(creation.characters'[k])
        /\ mounted' # <<>> =>
              \A k \in 1..Len(mounted'[1].characters) :
                  DerivedAsClaimed(mounted'[1].characters[k])
        /\ (phase = "NARRATIVE" /\ ~ Reload) =>
              /\ Len(activeCharacters') = Len(activeCharacters)
              /\ \A k \in 1..Len(activeCharacters) :
                    activeCharacters'[k].attributes
                       = activeCharacters[k].attributes
              /\ (\E k \in 1..Len(activeCharacters) :
                     activeCharacters'[k].derived
                        # activeCharacters[k].derived) => ResourceStep ]_vars

\* A party with a character of manual mode whose CON was raised and a
\* character of automatic mode, in which a turn has taken hp from somebody.
DerivedComputedOnceWitness ==
    /\ phase = "NARRATIVE"
    /\ \E k \in 1..Len(activeCharacters) :
          /\ activeCharacters[k].attributes.CON = 2
          /\ activeCharacters[k].attributes.FOR = 1
    /\ \E k \in 1..Len(activeCharacters) :
          activeCharacters[k].attributes.FOR = 5
    /\ \E k \in 1..Len(activeCharacters) :
          ~ DerivedAsClaimed(activeCharacters[k])
    /\ pendingTurn = <<>>

----------------------------------------------------------------------------
\* The phase of the session as the players see it: App.phase, and the
\* game-over screen of the narrative view once a result is set.
SessionPhase ==
    IF phase = "NARRATIVE" /\ gameResult # "null" THEN "GAME_OVER" ELSE phase

PhaseSuccessor ==
    { <<"SETUP", "CHARACTER_CREATION">>, <<"CHARACTER_CREATION", "NARRATIVE">>,
      <<"NARRATIVE", "GAME_OVER">> }

\* C17: the session phase moves only along SETUP -> CHARACTER_CREATION ->
\* NARRATIVE -> GAME_OVER, one step at a time and never backwards; a turn
\* with a victory or defeat result moves the session to GAME_OVER; from
\* GAME_OVER the phase, the roster and the turn in flight never change.
SessionPhaseOrder ==
    [][ /\ \/ SessionPhase' = SessionPhase
           \/ <<SessionPhase, SessionPhase'>> \in PhaseSuccessor
        /\ \A r \in Responses :
              (TurnSuccess(r) /\ NewGameResult(r) # "null") =>
                  SessionPhase' = "GAME_OVER"
        /\ SessionPhase = "GAME_OVER" =>
              /\ SessionPhase' = "GAME_OVER"
              /\ activeCharacters' = activeCharacters
              /\ pendingTurn' = pendingTurn ]_vars

----------------------------------------------------------------------------
\* giveItem of the item at position i of the giver's bag, as the claim
\* states it: old roster c, new roster r, giver s and recipient t.
GiveAsClaimed(c, r, s, t, i) ==
    LET item == c[s].items[i]
    IN  IF \/ Len(c[t].items) >= BagLimit(c[t])
           \/ \E j \in 1..Len(c[t].items) : c[t].items[j].name = item.name
        THEN r = c
        ELSE /\ Len(r) = Len(c)
             /\ Len(r[s].items) = Len(c[s].items) - 1
             /\ \A j \in 1..Len(r[s].items) :
                   r[s].items[j] = c[s].items[IF j < i THEN j ELSE j + 1]
             /\ r[t].items = Append(c[t].items, item)
             /\ \A f \in DOMAIN c[s] \ {"items"} : r[s][f] = c[s][f]
             /\ \A f \in DOMAIN c[t] \ {"items"} : r[t][f] = c[t][f]
             /\ \A k \in 1..Len(c) : k \notin {s, t} => r[k] = c[k]

\* The contract of a gift on one roster: every giver, every recipient, every
\* item of the giver's bag.
GiveContractOn(chars) ==
    \A s \in 1..Len(chars) :
       \A t \in (1..Len(chars)) \ {s}, i \in 1..Len(chars[s].items) :
          GiveAsClaimed(chars,
                        GiveBetween(chars, chars[s].id, chars[t].id, i),
                        s, t, i)

\* C21: giveItem is rejected with no change of the roster or the ground when
\* the recipient's bag is at its limit or holds an item of the same name;
\* otherwise exactly the given item leaves the giver's bag and is appended to
\* the recipient's bag, and nobody else changes.  Stated for every pair of
\* characters of every reachable roster with every item of the giver's bag,
\* and for the calls made from the gift menu.
GiveContract ==
    /\ GiveContractOn(activeCharacters)
    /\ [][/\ (activeCharacters' # activeCharacters) =>
                GiveContractOn(activeCharacters')
           /\ \A a \in CharIds, b \in CharIds, i \in 1..9 :
                (steps' # steps /\ handleGiveItem(a, b, i)) =>
                   /\ GiveAsClaimed(activeCharacters, activeCharacters',
                                    FindIndexById(activeCharacters, a),
                                    FindIndexById(activeCharacters, b), i)
                   /\ UNCHANGED <<nearbyItems, activeNeutrals, enemies>>]_vars

\* Ana and Bo both hold a Potion and Ana's bag has room: the state in which
\* a gift of the Potion is rejected for its name.
GiveWitness ==
    /\ Len(activeCharacters) = 2
    /\ HasName(activeCharacters[1].items, "Potion")
    /\ HasName(activeCharacters[2].items, "Potion")
    /\ Len(activeCharacters[1].items) < getInventoryLimit(activeCharacters[1])

----------------------------------------------------------------------------
\* The texts of the entries that report a completed operation.
SuccessTexts ==
    { "Pegou do chao.", "Jogou no chao.", "deu para", "Equipou",
      "Desequipou item das", "comprou por", "vendeu por" }

\* What the log must hold after a rejected operation: an entry, and no
\* entry of a completed operation.
RejectionLogged ==
    /\ newLogs' # {}
    /\ \A e \in newLogs' : e.text \notin SuccessTexts

\* C22: every rejected inventory or trade operation (bag full, duplicate
\* name, occupied slot, insufficient funds) appends a log entry that explains
\* the rejection and appends no entry of a completed operation.  Stated for
\* the calls of takeItem, giveItem, equipItem, unequipItem and buyItem whose
\* rejection condition holds.
RejectionsAreLogged ==
    [][/\ \A c \in CharIds, i \in 1..3 :
             (/\ handleTakeItem(c, i)
              /\ LET k == FindIndexById(activeCharacters, c)
                 IN  \/ Len(Bag(k)) >= BagLimit(activeCharacters[k])
                     \/ HasName(Bag(k), nearbyItems[i].name))
                => RejectionLogged
       /\ \A a \in CharIds, b \in CharIds, i \in 1..9 :
             (/\ handleGiveItem(a, b, i)
              /\ activeCharacters' = activeCharacters)
                => RejectionLogged
       /\ \A c \in CharIds, i \in 1..9 :
             (/\ handleEquipItem(c, i)
              /\ activeCharacters' = activeCharacters)
                => RejectionLogged
       /\ \A c \in CharIds, s \in Slots :
             (/\ handleUnequipItem(c, s)
              /\ activeCharacters' = activeCharacters)
                => RejectionLogged
       /\ \A c \in CharIds, i \in 1..4 :
             (/\ handleBuyItem(c, i)
              /\ activeCharacters' = activeCharacters)
                => RejectionLogged]_vars

----------------------------------------------------------------------------
\* useItem of the bag item at position i, as it acts outside combat: the
\* parsed amounts are added and the item leaves the bag.
UseAsClaimed(c, r, i) ==
    LET item == c.items[i]
    IN  /\ r.derived.hp = c.derived.hp + Gain(item.effect, HpWords)
        /\ r.derived.mana = c.derived.mana + Gain(item.effect, ManaWords)
        /\ r.derived.stamina = c.derived.stamina + Gain(item.effect, StWords)
        /\ r.items = RemoveAt(c.items, i)
        /\ r.equipment = c.equipment /\ r.wealth = c.wealth

\* C23: the combat lock does not cover equipment and consumables: while the
\* enemy roster is not empty, equipItem, unequipItem and useItem have the
\* effect they have with an empty enemy roster, on the character they are
\* called for and on nobody else, and leave the enemy roster alone.
CombatAllowsEquipment ==
    [][Len(enemies) > 0 =>
          /\ \A c \in CharIds, i \in 1..9 :
                handleUseItem(c, i)
                   => LET k == FindIndexById(activeCharacters, c)
                      IN  /\ UseAsClaimed(activeCharacters[k],
                                          activeCharacters'[k], i)
                          /\ \A j \in Party \ {k} :
                                activeCharacters'[j] = activeCharacters[j]
                          /\ enemies' = enemies
          /\ \A c \in CharIds, i \in 1..9 :
                handleEquipItem(c, i)
                   => LET k == FindIndexById(activeCharacters, c)
                      IN  /\ EquipAsClaimed(activeCharacters[k],
                                            activeCharacters'[k], i)
                          /\ \A j \in Party \ {k} :
                                activeCharacters'[j] = activeCharacters[j]
                          /\ enemies' = enemies
          /\ \A c \in CharIds, s \in Slots :
                handleUnequipItem(c, s)
                   => LET k == FindIndexById(activeCharacters, c)
                      IN  /\ UnequipAsClaimed(activeCharacters[k],
                                              activeCharacters'[k], s)
                          /\ \A j \in Party \ {k} :
                                activeCharacters'[j] = activeCharacters[j]
                          /\ enemies' = enemies]_vars

\* Facing the Wolf, Ana has equipped her Sword, used her Elixir and taken the
\* Sword off again.
CombatAllowsEquipmentWitness ==
    /\ Len(enemies) > 0
    /\ steps = 3
    /\ pendingTurn = <<>>
    /\ activeCharacters[1].items = <<Sword>>
    /\ activeCharacters[1].equipment = [s \in {} |-> Sword]
    /\ activeCharacters[1].derived # PartyB[1].derived

----------------------------------------------------------------------------
\* C24: the items of a turn response (inventoryUpdates with action ADD, and
\* nearbyItems) go to the ground pool and never into a bag, and an item whose
\* name is already in the ground pool is skipped: after a response no item
\* the response added to the ground pool shares its name with another item
\* of the pool.  The items added are the ones behind the pool of before.
LootGoesToGroundOnce ==
    [][\A r \in Responses :
          TurnSuccess(r) =>
             /\ \A k \in 1..Len(activeCharacters') :
                   \A i \in 1..Len(activeCharacters'[k].items) :
                      \E j \in 1..Len(TurnRoster[k].items) :
                         activeCharacters'[k].items[i] = TurnRoster[k].items[j]
             /\ \/ nearbyItems' = <<>>
                \/ /\ Len(nearbyItems') >= Len(nearbyItems)
                   /\ SubSeq(nearbyItems', 1, Len(nearbyItems)) = nearbyItems
                   /\ \A j \in (Len(nearbyItems) + 1)..Len(nearbyItems') :
                         \A i \in 1..(j - 1) :
                            nearbyItems'[i].name # nearbyItems'[j].name]_vars

----------------------------------------------------------------------------
\* The wealth of the character named n in roster chars.
WealthOf(chars, n) == chars[FindIndexByName(chars, n)].wealth

----------------------------------------------------------------------------
\* callWithRetry (src/services/geminiService.ts), one call at a time.  The
\* loop is split at its two awaits: the call of fn and the sleep.

\* Bound of the calls of fn in one call of callWithRetry.
MaxCalls == 6

\* The values of maxRetries; every caller in the file uses the default, 3.
RetryLimits == {0, 1, 3}

\* What one call of fn does: it returns, or it throws an error whose message
\* is of one of the kinds the catch block tells apart.
FnOutcomes == {"ok", "generic", "quota", "json", "key"}

RetryVars ==
    <<activeCharacters, history, isProcessing, gameResult, enemies,
      activeAllies, activeNeutrals, nearbyItems, mapData, karmaMap, timeData,
      tradeTarget, givingItem, permadeathEnabled, karmicDiceEnabled,
      pendingTurn, phase, mounted, creation, worldSetup, loadingStory,
      characters, newLogs, steps>>

\* shouldRetry with the attempt that equals maxRetries still retried.
shouldRetryInclusive(error, attempt, maxRetries) ==
    error \in {"quota", "json"} \/ attempt <= maxRetries

\* const shouldRetry = isQuotaError || isJsonError || attempt < maxRetries
shouldRetry(error, attempt, maxRetries) ==
    error \in {"quota", "json"} \/ attempt < maxRetries

\* The catch block up to its await or its throw.
catchError(r, error) ==
    IF error = "key"
    THEN [r EXCEPT !.status = "thrown", !.error = error]
    ELSE IF shouldRetry(error, r.attempt, r.maxRetries)
    THEN [r EXCEPT !.status = "sleeping", !.error = error,
                   !.attempt = @ + 1,
                   !.waitTime = IF error = "quota" THEN 5000 ELSE r.delay,
                   !.delay = IF error = "quota" THEN @
                             ELSE Min((@ * 3) \div 2, 10000)]
    ELSE [r EXCEPT !.status = "thrown", !.error = error]

\* callWithRetry(fn, maxRetries) is called in a build with or without a key.
StartCall(apiKey, maxRetries) ==
    /\ retry.status = "idle"
    /\ retry' = [status |-> "trying", apiKey |-> apiKey,
                 maxRetries |-> maxRetries, attempt |-> 0, delay |-> 2000,
                 calls |-> 0, waitTime |-> 0, error |-> "none", thrown |-> {}]
    /\ UNCHANGED RetryVars

\* One turn of the loop without an API key: the throw of line 42, caught.
TryWithoutKey ==
    /\ retry.status = "trying"
    /\ ~ retry.apiKey
    /\ retry' = catchError(retry, "key")
    /\ UNCHANGED RetryVars

\* The call after one turn of the loop in which fn returns or throws.
afterFn(r, outcome) ==
    LET called == [r EXCEPT !.calls = @ + 1]
    IN  IF outcome = "ok"
        THEN [called EXCEPT !.status = "returned"]
        ELSE catchError([called EXCEPT !.thrown = @ \cup {outcome}], outcome)

\* One turn of the loop: fn is called and returns or throws.
TryCall(outcome) ==
    /\ retry.status = "trying"
    /\ retry.apiKey
    /\ retry.calls < MaxCalls
    /\ retry' = afterFn(retry, outcome)
    /\ UNCHANGED RetryVars

\* The timer of the sleep fires.
Wake ==
    /\ retry.status = "sleeping"
    /\ retry' = [retry EXCEPT !.status = "trying"]
    /\ UNCHANGED RetryVars

NextRetry ==
    \/ \E apiKey \in BOOLEAN, maxRetries \in RetryLimits :
          StartCall(apiKey, maxRetries)
    \/ TryWithoutKey
    \/ \E outcome \in FnOutcomes : TryCall(outcome)
    \/ Wake

SpecRetry == Init /\ [][NextRetry]_vars

\* C32: a call of callWithRetry whose request keeps failing gives up after a
\* bounded number of attempts: fn is invoked at most maxRetries + 1 times,
\* after which the call has thrown.
RetriesExhaust ==
    /\ retry.calls <= retry.maxRetries + 1
    /\ (retry.calls = retry.maxRetries + 1 /\ retry.error # "none"
        /\ retry.status # "returned") => retry.status = "thrown"

\* C39: an 'API Key is missing' error is rethrown at once, with no retry and
\* no sleep; a call whose every attempt fails with a generic error invokes fn
\* exactly maxRetries + 1 times and then rethrows the last error.
RetryContract ==
    /\ (retry.thrown = {"generic"} /\ retry.status # "returned") =>
          /\ retry.calls <= retry.maxRetries + 1
          /\ retry.status = "thrown" <=> retry.calls = retry.maxRetries + 1
          /\ retry.status = "thrown" => retry.error = "generic"
          /\ retry.status = "sleeping" => retry.attempt = retry.calls
    /\ retry.error = "key" =>
          /\ retry.status = "thrown"
          /\ ~ retry.apiKey =>
                retry.calls = 0 /\ retry.attempt = 0 /\ retry.waitTime = 0
    /\ (~ retry.apiKey /\ retry.status # "trying") =>
          retry.status = "thrown" /\ retry.error = "key"

\* A call with the default maxRetries has failed four times with a generic
\* error and has thrown it.
RetryContractWitness ==
    /\ retry.status = "thrown"
    /\ retry.maxRetries = 3
    /\ retry.thrown = {"generic"}
    /\ retry.calls = 4

----------------------------------------------------------------------------
\* A roster of a response with the status list every entity must have.
WithStatusList(roster) ==
    [k \in 1..Len(roster) |->
        IF "status" \in DOMAIN roster[k] THEN roster[k]
        ELSE [f \in DOMAIN roster[k] \cup {"status"} |->
                IF f = "status" THEN <<>> ELSE roster[k][f]]]

\* C26: after a successful turn the enemy, ally and neutral rosters are the
\* lists the response returned, whatever they were before, and every entity
\* of the three rosters has a status list, empty when the response left it
\* out.
RostersReplaced ==
    [][\A r \in Responses :
          TurnSuccess(r) =>
             /\ r.activeEnemies # <<>> =>
                   enemies' = WithStatusList(r.activeEnemies[1])
             /\ r.activeAllies # <<>> =>
                   activeAllies' = WithStatusList(r.activeAllies[1])
             /\ r.activeNeutrals # <<>> =>
                   activeNeutrals' = WithStatusList(r.activeNeutrals[1])
             /\ \A k \in 1..Len(enemies') : "status" \in DOMAIN enemies'[k]
             /\ \A k \in 1..Len(activeAllies') :
                   "status" \in DOMAIN activeAllies'[k]
             /\ \A k \in 1..Len(activeNeutrals') :
                   "status" \in DOMAIN activeNeutrals'[k]]_vars

----------------------------------------------------------------------------
\* C27: in a turn submitted with permadeath on, a die is rolled for exactly
\* the characters with hp > 0.  A character with hp <= 0 gets no roll and no
\* roll entry, its karma streak is left as it was, no roll of it goes to the
\* Oracle, and its action in the history entry and in the request is the
\* fixed marker; a character with hp > 0 keeps what was typed for it.
PermadeathSkipsTheDown ==
    [][(permadeathEnabled /\ SubmitTurn) =>
         \A k \in 1..Len(activeCharacters) :
            LET c == activeCharacters[k]
                rolled == c.id \in pendingTurn'[1].rolled
                logged == \E l \in newLogs' :
                             l.source = c.name /\ l.type = "player-roll"
                said == history'[Len(history')].content[k]
                sent == pendingTurn'[1].actions[k]
            IN  /\ rolled <=> c.derived.hp > 0
                /\ logged <=> c.derived.hp > 0
                /\ said.name = c.name /\ sent.name = c.name
                /\ c.derived.hp <= 0 =>
                      /\ karmaMap'[c.id] = karmaMap[c.id]
                      /\ said.action = "(CAIDO/INCONSCIENTE)"
                      /\ sent.action = "INCONSCIENTE/CAIDO"
                /\ c.derived.hp > 0 =>
                      /\ said.action \in {"attack", "Aguarda..."}
                      /\ sent.action \in {"attack", ""}]_vars

\* A turn is in flight that was submitted with permadeath on by a party with
\* one character standing and one at hp <= 0: only the first rolled.
PermadeathSkipsTheDownWitness ==
    /\ permadeathEnabled
    /\ pendingTurn # <<>>
    /\ \E j, k \in 1..Len(TurnRoster) :
          /\ activeCharacters = TurnRoster
          /\ TurnRoster[j].derived.hp > 0
          /\ TurnRoster[k].derived.hp <= 0
          /\ pendingTurn[1].rolled = {TurnRoster[j].id}
          /\ pendingTurn[1].actions[k].action = "INCONSCIENTE/CAIDO"

----------------------------------------------------------------------------
\* C28: with permadeath off a character at hp 0 is left out of the turn:
\* submitTurn rolls no die for it and sends no declared action for it; a
\* character whose hp is above 0 (again) rolls and acts.
DownedSitsOutWithoutPermadeath ==
    [][(~ permadeathEnabled /\ SubmitTurn) =>
         \A k \in 1..Len(activeCharacters) :
            LET c == activeCharacters[k]
                rolled == c.id \in pendingTurn'[1].rolled
                sent == pendingTurn'[1].actions[k].action
            IN  /\ c.derived.hp = 0 =>
                      ~ rolled /\ sent \notin {"attack", ""}
                /\ c.derived.hp > 0 =>
                      rolled /\ sent \in {"attack", ""}]_vars

----------------------------------------------------------------------------
\* The names a response addresses its changes, updates and statuses to.
NamesIn(r) ==
    { r.resourceChanges[i].characterName : i \in DOMAIN r.resourceChanges }
    \cup
    { r.inventoryUpdates[i].characterName : i \in DOMAIN r.inventoryUpdates }
    \cup
    { r.characterStatusUpdates[i].characterName :
        i \in DOMAIN r.characterStatusUpdates }

NamesOf(chars) == { chars[k].name : k \in DOMAIN chars }

\* C29: a response that addresses a change, an update or a status to a name
\* that is not in the roster changes no character for it and does not abort
\* the turn: the raw resource change is logged, and the rest of the response
\* (the changes and statuses of the characters that exist, the rosters, the
\* map, the time, the story text) is applied.
UnknownNameIsSkipped ==
    [][\A r \in Responses :
          (/\ pendingTurn # <<>>
           /\ NamesIn(r) \ NamesOf(TurnRoster) # {}
           /\ TurnSuccess(r)) =>
             /\ ~ isProcessing'
             /\ history' = Append(history, GmEntry(r.storyText))
             /\ Len(activeCharacters') = Len(TurnRoster)
             /\ \A k \in DOMAIN TurnRoster :
                   TurnRoster[k].name \notin NamesIn(r) =>
                      activeCharacters'[k] = TurnRoster[k]
             /\ \A i \in DOMAIN r.resourceChanges :
                   LET change == r.resourceChanges[i]
                   IN  IF change.characterName \notin NamesOf(TurnRoster)
                       THEN \E l \in newLogs' :
                               /\ l.source = "Sistema"
                               /\ l.who = change.characterName
                               /\ l.text = change.resource
                               /\ l.number = change.value
                       ELSE \A k \in DOMAIN TurnRoster :
                               (/\ TurnRoster[k].name = change.characterName
                                /\ \A j \in DOMAIN r.resourceChanges \ {i} :
                                      r.resourceChanges[j].characterName
                                         # change.characterName) =>
                                  activeCharacters'[k].derived[change.resource]
                                     = LET sum == TurnRoster[k].derived[
                                                     change.resource]
                                                  + change.value
                                       IN  IF permadeathEnabled \/ sum >= 0
                                           THEN sum ELSE 0
             /\ \A i \in DOMAIN r.characterStatusUpdates :
                   \A k \in DOMAIN TurnRoster :
                      TurnRoster[k].name
                         = r.characterStatusUpdates[i].characterName =>
                         activeCharacters'[k].status
                            = r.characterStatusUpdates[i].status
             /\ r.activeEnemies # <<>> =>
                   Len(enemies') = Len(r.activeEnemies[1])
                   /\ \A k \in DOMAIN enemies' :
                         enemies'[k].name = r.activeEnemies[1][k].name
             /\ r.activeAllies # <<>> =>
                   Len(activeAllies') = Len(r.activeAllies[1])
             /\ r.activeNeutrals # <<>> =>
                   activeNeutrals' = r.activeNeutrals[1]
             /\ r.mapData # <<>> => mapData' = r.mapData
             /\ r.timeData # <<>> => timeData' = r.timeData[1]]_vars

\* A turn has completed whose response addressed hp -3 to Zed, who is not in
\* the party: the change is in the log, Ana's stamina went down by the change
\* addressed to her, and the response's enemy, map and time are in place.
UnknownNameIsSkippedWitness ==
    /\ ~ isProcessing
    /\ \E l \in newLogs : l.who = "Zed" /\ l.text = "hp" /\ l.number = -3
    /\ \E k \in DOMAIN activeCharacters :
          /\ activeCharacters[k].name = "Ana"
          /\ activeCharacters[k].derived.stamina = 7
          /\ activeCharacters[k].status = <<"Cansado">>
    /\ Len(enemies) = 1 /\ enemies[1].name = "Wolf"
    /\ mapData = <<Cave>>
    /\ timeData.dayCount = 2
    /\ history[Len(history)] = GmEntry("story")

----------------------------------------------------------------------------
\* C30: a setup call that fails keeps the player on the step, able to try
\* again.  When generateWorldPremise fails the phase stays SETUP and the
\* button is back; when startNarrative fails the phase stays
\* CHARACTER_CREATION, the party that was built is still on the screen, and
\* no narrative history, roster, map or time has been set.  In both cases the
\* loading flag is cleared.
FailedSetupStays ==
    [][/\ handleGenerateFail =>
            /\ phase' = "SETUP"
            /\ ~ worldSetup'.loading
            /\ worldSetup'.error # <<>>
       /\ StartNarrativeFail =>
            /\ phase' = "CHARACTER_CREATION"
            /\ ~ loadingStory'
            /\ creation' = creation
            /\ mounted' = <<>>
            /\ history' = <<>> /\ enemies' = <<>> /\ activeAllies' = <<>>
            /\ activeNeutrals' = <<>> /\ mapData' = <<>>
            /\ timeData' = timeData]_vars

\* startNarrative has failed: the party given to it is in App, the creation
\* screen shows the same two characters and takes clicks again, and nothing
\* of the narrative is set.
FailedSetupStaysWitness ==
    /\ phase = "CHARACTER_CREATION"
    /\ ~ loadingStory
    /\ characters # <<>>
    /\ creation.characters = characters
    /\ mounted = <<>>
    /\ history = <<>>

----------------------------------------------------------------------------
\* C31: with permadeath on, whenever a turn's response has been applied and
\* every character is at hp 0, the game result is defeat and the session is
\* over.
AllDeadIsDefeat ==
    [][\A r \in Responses :
          (/\ permadeathEnabled
           /\ TurnSuccess(r)
           /\ \A k \in 1..Len(activeCharacters') :
                 activeCharacters'[k].derived.hp = 0) =>
             gameResult' = "defeat"]_vars

----------------------------------------------------------------------------
\* C36: in the prompt of a turn a character is described as dead ("MORTO")
\* exactly when it is down (permadeath on and hp <= 0); a living character,
\* also one whose textarea was left empty, is described with its own action
\* and its die roll.
DeadOnlyIfDown ==
    pendingTurn # <<>> =>
       LET said == actionContext(pendingTurn[1].actions, TurnRoster,
                                 pendingTurn[1].rolled)
       IN  \A k \in 1..Len(TurnRoster) :
              LET c == TurnRoster[k]
                  down == permadeathEnabled /\ c.derived.hp <= 0
              IN  /\ said[k].kind = "MORTO" <=> down
                  /\ ~ down => /\ said[k].kind = "PC"
                               /\ said[k].name = c.name
                               /\ said[k].action = pendingTurn[1].actions[k].action
                               /\ said[k].die

----------------------------------------------------------------------------
\* The points of the eight attributes.
AttributePoints(a) ==
    a.FOR + a.DES + a.CON + a.INT + a.SAB + a.CAR + a.AGI + a.SOR

\* C37: in manual distribution every attribute stays within 1..5 and the
\* points of the eight attributes plus the points left in the pool are 24,
\* whatever the order of mode toggles, generations, increments and
\* decrements; no character built by hand has more than 24 points.
ManualPointsBudget ==
    (creation.creationMode = "manual" /\ creation.generatedAttributes # <<>>)
       => LET a == creation.generatedAttributes[1]
          IN  /\ \A attr \in DOMAIN a : a[attr] \in 1..5
              /\ AttributePoints(a) + creation.pointsPool = 24

----------------------------------------------------------------------------
\* How many times the item v is held: in the bags and the equipment slots of
\* the characters and on the ground.
HeldCount(chars, ground, v) ==
    LET InBag(k) == Cardinality({ i \in 1..Len(chars[k].items) :
                                     chars[k].items[i] = v })
        InSlots(k) == Cardinality({ s \in DOMAIN chars[k].equipment :
                                       chars[k].equipment[s] = v })
        RECURSIVE Upto(_)
        Upto(k) == IF k = 0 THEN 0 ELSE InBag(k) + InSlots(k) + Upto(k - 1)
    IN  Upto(Len(chars))
        + Cardinality({ i \in 1..Len(ground) : ground[i] = v })

\* The items held anywhere.
HeldItems(chars, ground) ==
    UNION { { chars[k].items[i] : i \in 1..Len(chars[k].items) }
            \cup { chars[k].equipment[s] : s \in DOMAIN chars[k].equipment } :
            k \in 1..Len(chars) }
    \cup { ground[i] : i \in 1..Len(ground) }

\* The multiset of the items is the same in both states, and so are the
\* wealth and the resources of every character.
ItemsConserved ==
    /\ \A v \in HeldItems(activeCharacters, nearbyItems)
                  \cup HeldItems(activeCharacters', nearbyItems') :
          HeldCount(activeCharacters', nearbyItems', v)
             = HeldCount(activeCharacters, nearbyItems, v)
    /\ Len(activeCharacters') = Len(activeCharacters)
    /\ \A k \in 1..Len(activeCharacters) :
          /\ activeCharacters'[k].wealth = activeCharacters[k].wealth
          /\ activeCharacters'[k].derived = activeCharacters[k].derived

\* C38: dropItem, giveItem, equipItem and unequipItem neither create nor
\* destroy items, accepted or rejected: the multiset of the items of all
\* bags, all equipment slots and the ground is the same before and after,
\* and wealth and resources are unchanged.
MovesConserveItems ==
    [][(steps' # steps
        /\ \/ \E c \in CharIds, i \in 1..9 : handleDropItem(c, i)
           \/ \E c \in CharIds, t \in CharIds, i \in 1..9 :
                 handleGiveItem(c, t, i)
           \/ \E c \in CharIds, i \in 1..9 : handleEquipItem(c, i)
           \/ \E c \in CharIds, s \in Slots : handleUnequipItem(c, s))
       => ItemsConserved]_vars

\* The last call was a rejected one, a gift to a full bag or an unequip into
\* a full bag, made while some character wears an item.
MovesConserveItemsWitness ==
    /\ \E k \in 1..Len(activeCharacters) :
          DOMAIN activeCharacters[k].equipment # {}
    /\ \E e \in newLogs : e.text \in { "nao tem espaco na mochila.",
                                       "Sem espaco na mochila para desequipar." }

----------------------------------------------------------------------------
\* C35: while the trade modal is open, the stock it offers is the stock of
\* the merchant with the same id in the current neutral roster, after any
\* interleaving of sales and turn completions; nothing is on offer from a
\* merchant that is no longer in the roster.
ModalStockIsCurrent ==
    tradeTarget # <<>> =>
       \E j \in 1..Len(activeNeutrals) :
          /\ activeNeutrals[j].id = tradeTarget[1].id
          /\ activeNeutrals[j].shopItems = tradeTarget[1].shopItems

----------------------------------------------------------------------------
\* C34: save and resume round-trip the gameplay state: after each completed
\* turn and each inventory or trade action the saved snapshot holds the
\* current characters, enemies, allies, neutrals, map and time, so that the
\* narrative a reload starts from the snapshot begins with exactly those.
ResumeKeepsGameplay ==
    [][(phase = "NARRATIVE" /\ ~ isProcessing /\ Reload)
       => UNCHANGED <<activeCharacters, enemies, activeAllies,
                      activeNeutrals, mapData, timeData>>]_vars

----------------------------------------------------------------------------
----------------------------------------------------------------------------
\* The turn with its Oracle call: submitTurn awaits processTurn, which ends
\* in callWithRetry with the default maxRetries of 3 (geminiService.ts 748).
\* The turn succeeds when the call returns and fails when it throws.

\* The locals of callWithRetry that decide what the loop does next: every
\* attempt >= maxRetries gives the same value of attempt < maxRetries, so
\* attempt stays at maxRetries once it is there; the count of the calls and
\* the record of the errors thrown are not locals of the code and are left
\* out.
Saturated(r) ==
    [r EXCEPT !.attempt = Min(@, r.maxRetries), !.calls = 0, !.thrown = {}]

\* submitTurn up to the first turn of the loop of callWithRetry
OracleSubmit ==
    /\ submitTurnToAwait
    /\ retry' = [status |-> "trying", apiKey |-> TRUE, maxRetries |-> 3,
                 attempt |-> 0, delay |-> 2000, calls |-> 0, waitTime |-> 0,
                 error |-> "none", thrown |-> {}]

\* One turn of the loop of the turn's call: fn returns or throws.
OracleTry(outcome) ==
    /\ isProcessing
    /\ retry.status = "trying"
    /\ retry' = Saturated(afterFn(retry, outcome))
    /\ UNCHANGED RetryVars

\* The timer of the turn's call fires.
OracleWake == isProcessing /\ Wake

\* processTurn has returned r.
OracleReturns(r) == retry.status = "returned" /\ TurnSuccess(r)

\* processTurn has thrown.
OracleThrows == retry.status = "thrown" /\ TurnFail

NextOracle ==
    \/ OracleSubmit
    \/ \E outcome \in FnOutcomes : OracleTry(outcome)
    \/ OracleWake
    \/ \E r \in Responses : OracleReturns(r)
    \/ OracleThrows

\* The event loop runs every continuation that is ready: a pending request
\* settles, a timer fires, and the code after an await that has settled runs.
SpecOracle ==
    /\ Init
    /\ [][NextOracle]_vars
    /\ WF_vars(\E outcome \in FnOutcomes : OracleTry(outcome))
    /\ WF_vars(OracleWake)
    /\ WF_vars(\E r \in Responses : OracleReturns(r))
    /\ WF_vars(OracleThrows)

\* C33: every submitted turn eventually completes, by success or by failure,
\* and the in-flight flag is then false again, so that the turn can be
\* submitted again.
TurnCompletes == isProcessing ~> ~ isProcessing

====
